---- MODULE Spec2Model ----
(***************************************************************************)
(* A model of the aospy calculation engine: the construction of a Calc     *)
(* unit and of its derived paths (calc.py), the two-tier persistence of    *)
(* results (scratch files and the archive tarball), and the file locators  *)
(* of data_loader.py.                                                      *)
(*                                                                         *)
(* Strings are TLA+ strings, paths are sequences of path components, a     *)
(* netCDF Dataset is a function from variable names to values, a tarball   *)
(* is the sequence of its members.                                         *)
(***************************************************************************)
EXTENDS Integers, Sequences, FiniteSets, TLC

VARIABLES
    calc,       \* unit -> the Calc object built by Calc.__init__
    data_out,   \* unit -> Calc.data_out, a dict from output kind to data
    args,       \* unit -> the arguments its CalcInterface is built from
    scratch,    \* scratch filesystem: path -> Dataset stored in the file
    archive,    \* archive filesystem: path -> members of the tarball
    dirs,       \* the directories that exist
    stores0,    \* the stores as they were when the session began
    pc,         \* unit -> position inside save()
    local,      \* unit -> local variables of the running save()
    hist,       \* the calls made so far and what each returned
    loc         \* state of the file-locator scenario

vars == <<calc, args, data_out, scratch, archive, dirs, stores0, pc, local,
          hist, loc>>

-----------------------------------------------------------------------------
(* Bounds of the model. *)

MaxOps == 3

Units == {"u1", "u2"}
Values == {1, 2}
Regions == {"globe", "land"}

-----------------------------------------------------------------------------
(* Strings and paths. *)

Range(s) == {s[i] : i \in DOMAIN s}

\* str.join
RECURSIVE Join(_, _)
Join(seq, sep) ==
    IF seq = <<>> THEN ""
    ELSE IF Len(seq) = 1 THEN seq[1]
    ELSE seq[1] \o sep \o Join(Tail(seq), sep)

\* The orders in which iterating over a Python set may yield its elements.
\* The iteration order of a set of str depends on the hash seed of the
\* interpreter, so it is any enumeration of the set.
SetOrders(S) ==
    {s \in [1..Cardinality(S) -> S] : \A e \in S : \E i \in DOMAIN s : s[i] = e}

\* os.path.join on path components; an empty component adds nothing.
PathJoin(comps) == SelectSeq(comps, LAMBDA c : c # "")

\* '.'.join(parts).replace('..', '.'), for parts that hold no dot at their
\* ends: a run of n dots (n-1 empty parts in a row) becomes (n+1) \div 2 dots.
\* dots counts the dots that the join has put after the last part copied.
RECURSIVE Dots(_)
Dots(n) == IF n = 0 THEN "" ELSE "." \o Dots(n - 1)

RECURSIVE DotJoinFrom(_, _, _)
DotJoinFrom(parts, i, dots) ==
    IF i > Len(parts) THEN Dots(dots \div 2)
    ELSE IF parts[i] = "" THEN DotJoinFrom(parts, i + 1, dots + 1)
    ELSE Dots((dots + 1) \div 2) \o parts[i] \o DotJoinFrom(parts, i + 1, 1)

DotJoinReplace(parts) ==
    IF parts = <<>> THEN ""
    ELSE parts[1] \o
         (IF Len(parts) = 1 THEN "" ELSE DotJoinFrom(parts, 2, 1))

-----------------------------------------------------------------------------
(* Labels of aospy.io. *)

USER == "user"

\* ens_mem is <<>> for None and <<n>> for the integer n.
_ens_label(ens_mem) ==
    IF ens_mem = <<>> THEN "" ELSE "mem" \o ToString(ens_mem[1] + 1)

_yr_label(yr_range) ==
    IF yr_range[1] = yr_range[2] THEN ToString(yr_range[1])
    ELSE ToString(yr_range[1]) \o "-" \o ToString(yr_range[2])

_data_out_label(intvl_out, dtype_out_time, dtype_vert) ==
    Join(SelectSeq(<<intvl_out, dtype_out_time, dtype_vert>>,
                   LAMBDA c : c # ""), ".")

_data_in_label(intvl_in, dtype_in_time, dtype_in_vert) ==
    Join(SelectSeq(<<"from", intvl_in, dtype_in_time, dtype_in_vert>>,
                   LAMBDA c : c # ""), "_")

-----------------------------------------------------------------------------
(* Construction of a Calc unit. *)

\* An output kind (one element of dtype_out_time) is the sequence of its
\* dot-separated tokens; '' is the sequence holding one empty token.
KindAv == <<"av">>
KindRegAv == <<"reg", "av">>
KindEmpty == <<"">>

KindStr(kind) == Join(kind, ".")

\* A run argument: one Run, or a list or tuple of Runs.
OneRun(r) == [many |-> FALSE, runs |-> <<r>>]
ManyRuns(rs) == [many |-> TRUE, runs |-> rs]

\* CalcInterface.__init__.  iter gives, for each of the three sets that are
\* joined into a string, the order in which the set is iterated.
CalcInterface(a, iter) ==
    IF a.run \notin a.model.runs
    THEN [exc |-> "AttributeError"]
    ELSE
    LET run == a.run.runs
        n == Len(run)
        proj == [i \in 1..n |-> a.proj]
        model == [i \in 1..n |-> a.model.name]
    IN  [exc |-> "none",
         proj |-> proj,
         model |-> model,
         run |-> run,
         proj_str |-> Join(iter.proj, "_"),
         model_str |-> Join(iter.model, "_"),
         run_str |-> Join(iter.run, "_"),
         run_str_full |-> Join(run, "_"),
         name |-> a.var,
         ens_mem |-> a.ens_mem,
         intvl_in |-> a.intvl_in,
         intvl_out |-> a.intvl_out,
         dtype_in_time |-> a.dtype_in_time,
         dtype_in_vert |-> a.dtype_in_vert,
         dtype_out_time |-> a.dtype_out_time,
         dtype_out_vert |-> a.dtype_out_vert,
         region |-> a.region,
         start_date |-> a.date_range[1],
         end_date |-> a.date_range[Len(a.date_range)]]

\* The iteration orders CalcInterface.__init__ may meet for a.
IterOrders(a) ==
    [proj : SetOrders({a.proj}),
     model : SetOrders({a.model.name}),
     run : SetOrders(Range(a.run.runs))]

_dir_scratch(self) ==
    PathJoin(<<"/work", USER, self.proj_str, self.model_str, self.run_str,
               _ens_label(self.ens_mem), self.name>>)

_dir_archive(self) ==
    PathJoin(<<"/archive", USER, self.proj_str, "data", self.model_str,
               self.run_str, _ens_label(self.ens_mem)>>)

\* A date is <<year, month>>.
_file_name(self, dtype_out_time) ==
    DotJoinReplace(<<self.name,
                     _data_out_label(self.intvl_out, KindStr(dtype_out_time),
                                     self.dtype_out_vert),
                     _data_in_label(self.intvl_in, self.dtype_in_time,
                                    self.dtype_in_vert),
                     self.model_str, self.run_str_full,
                     _ens_label(self.ens_mem),
                     _yr_label(<<self.start_date[1], self.end_date[1]>>),
                     "nc">>)

_path_scratch(self, dtype_out_time) ==
    PathJoin(_dir_scratch(self) \o <<_file_name(self, dtype_out_time)>>)

_path_archive(self) == PathJoin(_dir_archive(self) \o <<"data.tar">>)

\* Calc.__init__ on a CalcInterface that was built without error.
CalcInit(ci) ==
    [ci EXCEPT !.exc = "none"] @@
    [dir_scratch |-> _dir_scratch(ci),
     dir_archive |-> _dir_archive(ci),
     file_name |-> [d \in Range(ci.dtype_out_time) |-> _file_name(ci, d)],
     path_scratch |-> [d \in Range(ci.dtype_out_time) |-> _path_scratch(ci, d)],
     path_archive |-> _path_archive(ci)]

\* The empty dict and the empty Dataset.
EmptyDict == << >>

-----------------------------------------------------------------------------
(* Data held in memory and in the stores. *)

\* An xray.DataArray with the given content.
DataArray(v) == [type |-> "DataArray", val |-> v]

\* The dict from region name to DataArray that region_calcs returns.
Dict(f) == [type |-> "dict", val |-> f]

\* 'reg' in dtype_out_time: a substring test; among the tokens of the
\* reduction vocabulary only the token 'reg' holds that substring.
IsReg(dtype_out_time) == "reg" \in Range(dtype_out_time)

\* xray.open_dataset(path) with the default engine: a missing file is a
\* RuntimeError.
open_dataset(fs, path) ==
    IF path \in DOMAIN fs THEN [exc |-> "none", ds |-> fs[path]]
    ELSE [exc |-> "RuntimeError", ds |-> EmptyDict]

\* xray.open_dataset(path, engine='scipy'): a missing file is an IOError.
open_dataset_scipy(fs, path) ==
    IF path \in DOMAIN fs THEN [exc |-> "none", ds |-> fs[path]]
    ELSE [exc |-> "IOError", ds |-> EmptyDict]

\* ds[name] of a Dataset.
GetItem(ds, name) ==
    IF name \in DOMAIN ds THEN [exc |-> "none", data |-> DataArray(ds[name])]
    ELSE [exc |-> "KeyError", data |-> DataArray(0)]

\* Members of a tarball that carry the given name.
Members(tar, name) == SelectSeq(tar, LAMBDA m : m.name = name)

\* tar --delete --file=... name: every member of that name is removed.
TarDelete(tar, name) == SelectSeq(tar, LAMBDA m : m.name # name)

\* TarFile.add(path, arcname=name): the member is appended.
TarAdd(tar, name, ds) == Append(tar, [name |-> name, ds |-> ds])

\* TarFile.getmember: the last member of that name.
TarGet(tar, name) == Members(tar, name)[Len(Members(tar, name))]

\* Calc._update_data_out
_update_data_out(dout, data, dtype) == (dtype :> data) @@ dout

-----------------------------------------------------------------------------
(* Calc.save, one step at a time.  The state st of a running save holds    *)
(* its arguments, its local variable reg_data, the unit's data_out, the   *)
(* two stores and the set of directories.                                  *)

Raise(st, e) == [st EXCEPT !.pc = "raised", !.exc = e]

SaveStart(dout, stores, data, dtype_out_time, scr, arc) ==
    [pc |-> "update", exc |-> "none", data_out |-> dout,
     fs |-> stores.fs, ar |-> stores.ar, dirs |-> stores.dirs,
     reg_data |-> EmptyDict, data |-> data, kind |-> dtype_out_time,
     scratch |-> scr, archive |-> arc]

AfterScratch(st) == IF st.archive THEN "archive_isdir" ELSE "print"

\* save: self._update_data_out(data, dtype_out_time)
StepUpdate(self, st) ==
    [st EXCEPT !.data_out = _update_data_out(st.data_out, st.data, st.kind),
               !.pc = IF st.scratch THEN "scratch_isdir" ELSE AfterScratch(st)]

\* _save_to_scratch: path = self.path_scratch[dtype_out_time] and the test
\* os.path.isdir(self.dir_scratch).
StepScratchIsdir(self, st) ==
    IF st.kind \notin DOMAIN self.path_scratch THEN Raise(st, "KeyError")
    ELSE IF self.dir_scratch \notin st.dirs
    THEN [st EXCEPT !.pc = "scratch_makedirs"]
    ELSE [st EXCEPT !.pc = IF IsReg(st.kind) THEN "scratch_open"
                           ELSE "scratch_write"]

\* os.makedirs(self.dir_scratch): OSError when the directory exists.
StepScratchMakedirs(self, st) ==
    IF self.dir_scratch \in st.dirs THEN Raise(st, "OSError")
    ELSE [st EXCEPT !.dirs = @ \cup {self.dir_scratch},
                    !.pc = IF IsReg(st.kind) THEN "scratch_open"
                           ELSE "scratch_write"]

\* _save_to_scratch: the read of the regional file that is already there.
StepScratchOpen(self, st) ==
    [st EXCEPT !.reg_data = open_dataset(st.fs, self.path_scratch[st.kind]).ds,
               !.pc = "scratch_write"]

\* ScratchContent with the DataArray stored under ARR_XRAY_NAME instead of
\* the name of the variable.
ScratchContent_ArrName(self, st) ==
    IF IsReg(st.kind) THEN st.data.val @@ st.reg_data
    ELSE ("aospy_result" :> st.data.val)

\* ScratchContent without the merge into the regions already stored.
ScratchContent_Overwrite(self, st) ==
    IF IsReg(st.kind) THEN st.data.val
    ELSE (self.name :> st.data.val)

\* ScratchContent with a merge in which the stored regions win.
ScratchContent_KeepOld(self, st) ==
    IF IsReg(st.kind) THEN st.reg_data @@ st.data.val
    ELSE (self.name :> st.data.val)

\* What _save_to_scratch writes: the merged regions, or the Dataset that
\* wraps the DataArray under the name of the variable.
ScratchContent(self, st) ==
    IF IsReg(st.kind) THEN st.data.val @@ st.reg_data
    ELSE (self.name :> st.data.val)

\* _save_to_scratch: data_out.to_netcdf(path, engine='scipy')
StepScratchWrite(self, st) ==
    [st EXCEPT !.fs = (self.path_scratch[st.kind] :> ScratchContent(self, st))
                      @@ st.fs,
               !.pc = AfterScratch(st)]

\* _save_to_archive: the test os.path.isdir(self.dir_archive).
StepArchiveIsdir(self, st) ==
    IF self.dir_archive \notin st.dirs
    THEN [st EXCEPT !.pc = "archive_makedirs"]
    ELSE [st EXCEPT !.pc = "archive_open"]

\* os.makedirs(self.dir_archive): OSError when the directory exists.
StepArchiveMakedirs(self, st) ==
    IF self.dir_archive \in st.dirs THEN Raise(st, "OSError")
    ELSE [st EXCEPT !.dirs = @ \cup {self.dir_archive},
                    !.pc = "archive_open"]

\* StepArchiveOpen with the tarball opened to write, which empties it.
StepArchiveOpen_Truncate(self, st) ==
    [st EXCEPT !.ar = (self.path_archive :> << >>) @@ st.ar,
               !.pc = "archive_extract"]

\* _save_to_archive: tarfile.open(path, 'a') makes the tarball if needed.
StepArchiveOpen(self, st) ==
    [st EXCEPT !.ar = IF self.path_archive \in DOMAIN st.ar THEN st.ar
                      ELSE (self.path_archive :> << >>) @@ st.ar,
               !.pc = "archive_extract"]

\* old_data_path of _save_to_archive, the directory the old member is
\* extracted into.
OldDataPath(self, st) == PathJoin(self.dir_archive \o <<self.file_name[st.kind]>>)

\* _save_to_archive: tar.extract of the old member into old_data_path;
\* KeyError, which is passed over, when the tarball has no such member.
StepArchiveExtract(self, st) ==
    IF st.kind \notin DOMAIN self.file_name THEN Raise(st, "KeyError")
    ELSE IF Members(st.ar[self.path_archive], self.file_name[st.kind]) = << >>
    THEN [st EXCEPT !.pc = "archive_add"]
    ELSE [st EXCEPT !.dirs = @ \cup {OldDataPath(self, st)},
                    !.pc = "archive_delete"]

\* StepArchiveDelete that leaves the old member in the tarball.
StepArchiveDelete_Keep(self, st) ==
    [st EXCEPT !.dirs = @ \ {OldDataPath(self, st)}, !.pc = "archive_add"]

\* _save_to_archive: shutil.rmtree(old_data_path), an OSError when the
\* directory is not there, and tar --delete of the old member.
StepArchiveDelete(self, st) ==
    IF OldDataPath(self, st) \notin st.dirs THEN Raise(st, "OSError")
    ELSE [st EXCEPT !.dirs = @ \ {OldDataPath(self, st)},
                    !.ar = [st.ar EXCEPT ![self.path_archive] =
                               TarDelete(@, self.file_name[st.kind])],
                    !.pc = "archive_add"]

\* _save_to_archive: tar.add of the scratch file.
StepArchiveAdd(self, st) ==
    IF self.path_scratch[st.kind] \notin DOMAIN st.fs
    THEN Raise(st, "OSError")
    ELSE [st EXCEPT !.ar = [st.ar EXCEPT ![self.path_archive] =
                               TarAdd(@, self.file_name[st.kind],
                                      st.fs[self.path_scratch[st.kind]])],
                    !.pc = "print"]

\* save: print(self.path_scratch[dtype_out_time])
StepPrint(self, st) ==
    IF st.kind \notin DOMAIN self.path_scratch THEN Raise(st, "KeyError")
    ELSE [st EXCEPT !.pc = "done"]

Finished(st) == st.pc \in {"done", "raised"}

SaveStep(self, st) ==
    CASE st.pc = "update" -> StepUpdate(self, st)
      [] st.pc = "scratch_isdir" -> StepScratchIsdir(self, st)
      [] st.pc = "scratch_makedirs" -> StepScratchMakedirs(self, st)
      [] st.pc = "scratch_open" -> StepScratchOpen(self, st)
      [] st.pc = "scratch_write" -> StepScratchWrite(self, st)
      [] st.pc = "archive_isdir" -> StepArchiveIsdir(self, st)
      [] st.pc = "archive_makedirs" -> StepArchiveMakedirs(self, st)
      [] st.pc = "archive_open" -> StepArchiveOpen(self, st)
      [] st.pc = "archive_extract" -> StepArchiveExtract(self, st)
      [] st.pc = "archive_delete" -> StepArchiveDelete(self, st)
      [] st.pc = "archive_add" -> StepArchiveAdd(self, st)
      [] st.pc = "print" -> StepPrint(self, st)
      [] OTHER -> st

\* Calc.save run from start to end with nothing in between.
RECURSIVE RunSave(_, _)
RunSave(self, st) ==
    IF Finished(st) THEN st ELSE RunSave(self, SaveStep(self, st))

save(self, dout, stores, data, dtype_out_time, scr, arc) ==
    RunSave(self, SaveStart(dout, stores, data, dtype_out_time, scr, arc))

-----------------------------------------------------------------------------
(* Calc.load *)

_load_from_scratch(self, fs, dtype_out_time) ==
    IF dtype_out_time \notin DOMAIN self.path_scratch
    THEN [exc |-> "KeyError", data |-> DataArray(0)]
    ELSE LET o == open_dataset_scipy(fs, self.path_scratch[dtype_out_time])
         IN  IF o.exc # "none" THEN [exc |-> o.exc, data |-> DataArray(0)]
             ELSE GetItem(o.ds, self.name)

_load_from_archive(self, ar, dtype_out_time) ==
    LET path == PathJoin(self.dir_archive \o <<"data.tar">>)
    IN  IF path \notin DOMAIN ar
        THEN [exc |-> "IOError", data |-> DataArray(0)]
        ELSE IF dtype_out_time \notin DOMAIN self.file_name
        THEN [exc |-> "KeyError", data |-> DataArray(0)]
        ELSE IF Members(ar[path], self.file_name[dtype_out_time]) = << >>
        THEN [exc |-> "KeyError", data |-> DataArray(0)]
        ELSE GetItem(TarGet(ar[path], self.file_name[dtype_out_time]).ds,
                     self.name)

\* LoadFromDisk that tries the archive first and the scratch file after it.
LoadFromDisk_ArchiveFirst(self, fs, ar, dtype_out_time) ==
    LET a == _load_from_archive(self, ar, dtype_out_time)
    IN  IF a.exc = "IOError"
        THEN _load_from_scratch(self, fs, dtype_out_time)
             @@ [reads |-> <<"archive", "scratch">>]
        ELSE a @@ [reads |-> <<"archive">>]

\* The part of load that goes to disk: scratch first, the archive when the
\* scratch read raised IOError.  reads lists the stores that were read.
LoadFromDisk(self, fs, ar, dtype_out_time) ==
    LET s == _load_from_scratch(self, fs, dtype_out_time)
    IN  IF s.exc = "IOError"
        THEN _load_from_archive(self, ar, dtype_out_time)
             @@ [reads |-> <<"scratch", "archive">>]
        ELSE s @@ [reads |-> IF dtype_out_time \in DOMAIN self.path_scratch
                             THEN <<"scratch">> ELSE << >>]

\* load that goes to disk also for a kind held in data_out.
load_AlwaysFromDisk(self, dout, fs, ar, dtype_out_time) ==
    LET r == LoadFromDisk(self, fs, ar, dtype_out_time)
    IN  IF r.exc # "none" THEN r @@ [data_out |-> dout]
        ELSE r @@ [data_out |-> _update_data_out(dout, r.data, dtype_out_time)]

\* Calc.load with no subsetting option.
load(self, dout, fs, ar, dtype_out_time) ==
    LET r == IF dtype_out_time \in DOMAIN dout
             THEN [exc |-> "none", data |-> dout[dtype_out_time],
                   reads |-> << >>]
             ELSE LoadFromDisk(self, fs, ar, dtype_out_time)
    IN  IF r.exc # "none" THEN r @@ [data_out |-> dout]
        ELSE r @@ [data_out |-> _update_data_out(dout, r.data, dtype_out_time)]

-----------------------------------------------------------------------------
(* The units of the persistence scenarios: two variables of one run, which *)
(* share the archive tarball of the run.                                   *)

TheModel == [name |-> "am2", runs |-> {OneRun("r1"), OneRun("r2")}]

ArgsOf(u) ==
    [proj |-> "p", model |-> TheModel, run |-> OneRun("r1"), ens_mem |-> << >>,
     var |-> IF u = "u1" THEN "v1" ELSE "v2",
     date_range |-> << <<3, 1>>, <<6, 12>> >>,
     region |-> Regions,
     intvl_in |-> "monthly", intvl_out |-> "ann",
     dtype_in_time |-> "ts", dtype_in_vert |-> "",
     dtype_out_time |-> <<KindAv, KindRegAv>>, dtype_out_vert |-> ""]

NewUnit(a) ==
    CalcInit(CalcInterface(a, CHOOSE it \in IterOrders(a) : TRUE))

Idle == [pc |-> "idle"]

NoStores == [fs |-> EmptyDict, ar |-> EmptyDict, dirs |-> {}]

\* The stores as an earlier session leaves them: u1 saved its 'av' result
\* to scratch and archive.
SavedStores ==
    LET st == save(NewUnit(ArgsOf("u1")), EmptyDict, NoStores,
                   DataArray(1), KindAv, TRUE, TRUE)
    IN  [fs |-> st.fs, ar |-> st.ar, dirs |-> st.dirs]

\* The same after the files of the scratch filesystem were purged.
PurgedStores == [SavedStores EXCEPT !.fs = EmptyDict]

Stores == [fs |-> scratch, ar |-> archive, dirs |-> dirs]

InitWith(stores) ==
    /\ args = [u \in Units |-> ArgsOf(u)]
    /\ calc = [u \in Units |-> NewUnit(ArgsOf(u))]
    /\ data_out = [u \in Units |-> EmptyDict]
    /\ scratch = stores.fs
    /\ archive = stores.ar
    /\ dirs = stores.dirs
    /\ stores0 = stores
    /\ pc = [u \in Units |-> "idle"]
    /\ local = [u \in Units |-> Idle]
    /\ hist = << >>
    /\ loc = Idle

Init == \E stores \in {NoStores, SavedStores, PurgedStores} : InitWith(stores)

AllIdle == \A u \in Units : pc[u] = "idle"

\* The entry of hist for a call.
Call(op, u, kind, data, arc, exc, reads) ==
    [op |-> op, unit |-> u, kind |-> kind, data |-> data, archive |-> arc,
     exc |-> exc, reads |-> reads]

\* One call of Calc.save, run to its end.
Save(u, dtype_out_time, data, scr, arc) ==
    /\ AllIdle
    /\ Len(hist) < MaxOps
    /\ LET st == save(calc[u], data_out[u], Stores, data, dtype_out_time,
                      scr, arc)
       IN  /\ data_out' = [data_out EXCEPT ![u] = st.data_out]
           /\ scratch' = st.fs
           /\ archive' = st.ar
           /\ dirs' = st.dirs
           /\ hist' = Append(hist, Call("save", u, dtype_out_time, data, arc,
                                        st.exc, << >>))
    /\ UNCHANGED <<calc, args, stores0, pc, local, loc>>

\* One call of Calc.load.
Load(u, dtype_out_time) ==
    /\ AllIdle
    /\ Len(hist) < MaxOps
    /\ LET r == load(calc[u], data_out[u], scratch, archive, dtype_out_time)
       IN  /\ data_out' = [data_out EXCEPT ![u] = r.data_out]
           /\ hist' = Append(hist, Call("load", u, dtype_out_time, r.data,
                                        FALSE, r.exc, r.reads))
    /\ UNCHANGED <<calc, args, scratch, archive, dirs, stores0, pc, local, loc>>

\* A new Calc is built for the unit from the same parameters.
NewCalc(u) ==
    /\ AllIdle
    /\ Len(hist) < MaxOps
    /\ calc' = [calc EXCEPT ![u] = NewUnit(args[u])]
    /\ data_out' = [data_out EXCEPT ![u] = EmptyDict]
    /\ hist' = Append(hist, Call("new", u, KindEmpty, DataArray(0), FALSE,
                                 "none", << >>))
    /\ UNCHANGED <<args, scratch, archive, dirs, stores0, pc, local, loc>>

\* What the persistence scenario saves.
SaveInputs ==
    {<<KindAv, DataArray(v)>> : v \in Values}
        \cup {<<KindRegAv, Dict("globe" :> 1)>>}

Next ==
    \/ \E u \in Units, in \in SaveInputs, arc \in BOOLEAN :
          Save(u, in[1], in[2], TRUE, arc)
    \/ \E u \in Units, k \in {KindAv, KindRegAv} : Load(u, k)
    \/ \E u \in Units : NewCalc(u)

Spec == Init /\ [][Next]_vars

-----------------------------------------------------------------------------
(* Regional saves to the scratch tier. *)

RegDicts ==
    {Dict(f) : f \in UNION {[S -> Values] : S \in SUBSET Regions \ {{}}}}

NextReg ==
    \E u \in Units, d \in RegDicts : Save(u, KindRegAv, d, TRUE, FALSE)

SpecReg == InitWith(NoStores) /\ [][NextReg]_vars

-----------------------------------------------------------------------------
(* Properties of load and save. *)

Last == hist[Len(hist)]

\* The step appends a call of the given operation to hist.
Called(op) ==
    /\ Len(hist') = Len(hist) + 1
    /\ hist'[Len(hist')].op = op

\* C1: load resolves the tiers in a fixed order.  A kind held in data_out is
\* returned with no store read; otherwise the scratch file is read first,
\* the archive is read only when the scratch file could not be opened, and
\* the data returned come from the first tier that was read with success.
C1_LoadTierOrder ==
    [][Called("load") =>
        LET r == hist'[Len(hist')]
            self == calc[r.unit]
            inMem == r.kind \in DOMAIN data_out[r.unit]
            onScratch == self.path_scratch[r.kind] \in DOMAIN scratch
        IN  /\ inMem => /\ r.reads = << >>
                        /\ r.exc = "none"
                        /\ r.data = data_out[r.unit][r.kind]
            /\ ~inMem => /\ r.reads # << >>
                         /\ r.reads[1] = "scratch"
            /\ "archive" \in Range(r.reads) =>
                  /\ ~inMem
                  /\ ~onScratch
                  /\ r.reads = <<"scratch", "archive">>
            /\ (~inMem /\ onScratch) => r.reads = <<"scratch">>
            /\ (~inMem /\ onScratch /\ r.exc = "none") =>
                  r.data = DataArray(scratch[self.path_scratch[r.kind]][self.name])
            /\ (~inMem /\ ~onScratch /\ r.exc = "none") =>
                  r.data = DataArray(TarGet(archive[self.path_archive],
                                            self.file_name[r.kind]).ds[self.name])
    ]_vars

\* A load was served by the archive after the scratch read failed.
C1_Witness ==
    /\ hist # << >>
    /\ Last.op = "load"
    /\ Last.exc = "none"
    /\ Last.reads = <<"scratch", "archive">>

\* C2: round trip.  A load of a non-regional kind that follows its save
\* returns the saved data, on the Calc that saved them and on a new Calc
\* built from the same parameters, which reads them from the scratch file.
C2_RoundTrip ==
    /\ \A i \in 1..(Len(hist) - 1) :
          (/\ hist[i].op = "save" /\ hist[i].exc = "none"
           /\ ~IsReg(hist[i].kind)
           /\ hist[i + 1].op = "load"
           /\ hist[i + 1].unit = hist[i].unit
           /\ hist[i + 1].kind = hist[i].kind)
          => /\ hist[i + 1].exc = "none"
             /\ hist[i + 1].data = hist[i].data
             /\ hist[i + 1].reads = << >>
    /\ \A i \in 1..(Len(hist) - 2) :
          (/\ hist[i].op = "save" /\ hist[i].exc = "none"
           /\ ~IsReg(hist[i].kind)
           /\ hist[i + 1].op = "new"
           /\ hist[i + 1].unit = hist[i].unit
           /\ hist[i + 2].op = "load"
           /\ hist[i + 2].unit = hist[i].unit
           /\ hist[i + 2].kind = hist[i].kind)
          => /\ hist[i + 2].exc = "none"
             /\ hist[i + 2].data = hist[i].data
             /\ hist[i + 2].reads = <<"scratch">>

\* A new Calc loaded from scratch what the Calc before it had saved over
\* an older artifact.
C2_Witness ==
    /\ Len(hist) = 3
    /\ hist[1].op = "save" /\ hist[1].exc = "none" /\ hist[1].kind = KindAv
    /\ hist[1].data = DataArray(2)
    /\ hist[2].op = "new" /\ hist[2].unit = hist[1].unit
    /\ hist[3].op = "load" /\ hist[3].unit = hist[1].unit
    /\ hist[3].kind = KindAv
    /\ hist[3].data = DataArray(2)

\* The saves of hist that wrote the regional artifact of unit u.
RegSaves(u) ==
    {i \in 1..Len(hist) : /\ hist[i].op = "save" /\ hist[i].exc = "none"
                          /\ hist[i].unit = u /\ IsReg(hist[i].kind)}

\* C3: regional saves are read-merge-write.  After any sequence of saves of
\* a regional kind to one scratch path, the first included, the regions in
\* the file are the union of the regions of every save so far, and no save
\* removes a region that the file held before it.
C3_RegionKeysUnion ==
    \A u \in Units :
        LET path == calc[u].path_scratch[KindRegAv]
        IN  /\ RegSaves(u) = {} => path \notin DOMAIN scratch
            /\ RegSaves(u) # {} =>
                  /\ path \in DOMAIN scratch
                  /\ DOMAIN scratch[path] =
                        UNION {DOMAIN hist[i].data.val : i \in RegSaves(u)}

\* Two saves of different regions left both regions in the file.
C3_Witness ==
    \E u \in Units :
        /\ Len(hist) >= 2
        /\ hist[1].unit = u /\ DOMAIN hist[1].data.val = {"globe"}
        /\ hist[2].unit = u /\ DOMAIN hist[2].data.val = {"land"}
        /\ DOMAIN scratch[calc[u].path_scratch[KindRegAv]] = {"globe", "land"}

\* C4: a regional save is idempotent.  Saving the same regions with the
\* same values a second time leaves the file as the first save left it,
\* and the file holds the saved value of every region saved.
C4_RegionSaveIdempotent ==
    [][Called("save") =>
        LET r == hist'[Len(hist')]
            path == calc[r.unit].path_scratch[r.kind]
        IN  (IsReg(r.kind) /\ r.exc = "none") =>
               /\ path \in DOMAIN scratch'
               /\ \A reg \in DOMAIN r.data.val :
                     /\ reg \in DOMAIN scratch'[path]
                     /\ scratch'[path][reg] = r.data.val[reg]
               /\ (hist # << >> /\ Last = r) => scratch' = scratch
    ]_vars

\* The same regional data were saved twice in a row over other data.
C4_Witness ==
    /\ Len(hist) = 3
    /\ hist[1].unit = hist[2].unit
    /\ hist[1].data # hist[2].data
    /\ DOMAIN hist[1].data.val = Regions
    /\ hist[3] = hist[2]
    /\ \A reg \in DOMAIN hist[3].data.val :
          scratch[calc[hist[3].unit].path_scratch[KindRegAv]][reg]
              = hist[3].data.val[reg]

\* C5: the archive replaces.  After a save with archive=True the tarball of
\* the run holds exactly one member of the saved file name, its content is
\* the scratch file that the save wrote, and the members of other names are
\* as they were.
C5_ArchiveReplace ==
    [][Called("save") =>
        LET r == hist'[Len(hist')]
            self == calc[r.unit]
            name == self.file_name[r.kind]
            old == IF self.path_archive \in DOMAIN archive
                   THEN archive[self.path_archive] ELSE << >>
            new == archive'[self.path_archive]
        IN  (r.archive /\ r.exc = "none") =>
               /\ Len(Members(new, name)) = 1
               /\ TarGet(new, name).ds = scratch'[self.path_scratch[r.kind]]
               /\ TarDelete(new, name) = TarDelete(old, name)
    ]_vars

\* A save replaced the member that an earlier save had archived, next to a
\* member of another name.
C5_Witness ==
    /\ Len(hist) = 3
    /\ \A i \in 1..3 : hist[i].op = "save" /\ hist[i].archive
                       /\ hist[i].exc = "none" /\ hist[i].kind = KindAv
    /\ hist[1].unit = hist[3].unit
    /\ hist[2].unit # hist[1].unit
    /\ hist[1].data # hist[3].data
    /\ Len(archive[calc["u1"].path_archive]) = 2
    /\ TarGet(archive[calc[hist[3].unit].path_archive],
              calc[hist[3].unit].file_name[KindAv]).ds
          = (calc[hist[3].unit].name :> hist[3].data.val)

-----------------------------------------------------------------------------
(* Saves in which one step fails.  failAt names the step of save at which  *)
(* the operating system reports an error: the step raises IOError before   *)
(* it changes anything.  A failing tar --delete raises nothing, since the  *)
(* exit status of subprocess.call is not looked at: the step is skipped.   *)

FailPoints ==
    {"none", "scratch_open", "scratch_write", "archive_open",
     "archive_extract", "archive_delete", "tar_delete", "archive_add"}

RECURSIVE RunSaveFailing(_, _, _)
RunSaveFailing(self, st, failAt) ==
    IF Finished(st) THEN st
    ELSE IF st.pc = failAt THEN Raise(st, "IOError")
    ELSE IF st.pc = "archive_delete" /\ failAt = "tar_delete"
    THEN RunSaveFailing(self, [StepArchiveDelete(self, st) EXCEPT !.ar = st.ar],
                        failAt)
    ELSE RunSaveFailing(self, SaveStep(self, st), failAt)

\* One call of Calc.save in which the step failAt fails.
SaveFailing(u, dtype_out_time, data, arc, failAt) ==
    /\ AllIdle
    /\ Len(hist) < MaxOps
    /\ LET st == RunSaveFailing(calc[u],
                     SaveStart(data_out[u], Stores, data, dtype_out_time,
                               TRUE, arc), failAt)
       IN  /\ data_out' = [data_out EXCEPT ![u] = st.data_out]
           /\ scratch' = st.fs
           /\ archive' = st.ar
           /\ dirs' = st.dirs
           /\ hist' = Append(hist, Call("save", u, dtype_out_time, data, arc,
                                        st.exc, << >>))
    /\ UNCHANGED <<calc, args, stores0, pc, local, loc>>

NextFault ==
    \E in \in SaveInputs, failAt \in FailPoints :
        SaveFailing("u1", in[1], in[2], TRUE, failAt)

SpecFault == (\E stores \in {NoStores, SavedStores} : InitWith(stores))
             /\ [][NextFault]_vars

\* C6: a save that fails at a step between its start and its end leaves
\* the artifact stored before it intact: the scratch file and the archive
\* member of that name are still there with the content they had.
C6_FailedSaveKeepsArtifact ==
    [][Called("save") =>
        LET r == hist'[Len(hist')]
            self == calc[r.unit]
            path == self.path_scratch[r.kind]
            name == self.file_name[r.kind]
            tar == self.path_archive
        IN  r.exc # "none" =>
               /\ path \in DOMAIN scratch =>
                     /\ path \in DOMAIN scratch'
                     /\ scratch'[path] = scratch[path]
               /\ (tar \in DOMAIN archive /\ Members(archive[tar], name) # << >>)
                     => /\ tar \in DOMAIN archive'
                        /\ Members(archive'[tar], name)
                              = Members(archive[tar], name)
    ]_vars

-----------------------------------------------------------------------------
(* Two units whose saves run at the same time, as an external driver that  *)
(* runs Calc units in parallel processes makes them.  Each unit saves      *)
(* once; a step of the save is one statement of _save_to_scratch or        *)
(* _save_to_archive.  The second unit is the first one with another        *)
(* variable, run or date range, or with none of them changed.              *)

DateRanges ==
    {<< <<3, 1>>, <<6, 12>> >>, << <<3, 2>>, <<6, 12>> >>,
     << <<4, 1>>, <<6, 12>> >>}

SecondArgs ==
    {[ArgsOf("u1") EXCEPT !.var = v, !.run = OneRun(r), !.date_range = d] :
        v \in {"v1", "v2"}, r \in {"r1", "r2"}, d \in DateRanges}

InitConc ==
    \E stores \in {NoStores, SavedStores}, a2 \in SecondArgs :
        /\ args = [u \in Units |-> IF u = "u1" THEN ArgsOf("u1") ELSE a2]
        /\ calc = [u \in Units |-> NewUnit(args[u])]
        /\ data_out = [u \in Units |-> EmptyDict]
        /\ scratch = stores.fs
        /\ archive = stores.ar
        /\ dirs = stores.dirs
        /\ stores0 = stores
        /\ pc = [u \in Units |-> "idle"]
        /\ local = [u \in Units |-> Idle]
        /\ hist = << >>
        /\ loc = Idle

\* The frame of a running save without the stores and data_out, which the
\* running saves share with the rest of the program.
Frame(st) ==
    [st EXCEPT !.fs = EmptyDict, !.ar = EmptyDict, !.dirs = {},
               !.data_out = EmptyDict]

\* What the parallel scenario saves: the first unit the value 1 or the
\* region globe, the second unit the value 2 or the region land.
ConcInputs(u) ==
    IF u = "u1" THEN {<<KindAv, DataArray(1)>>, <<KindRegAv, Dict("globe" :> 1)>>}
    ELSE {<<KindAv, DataArray(2)>>, <<KindRegAv, Dict("land" :> 2)>>}

\* The unit calls save.
StartSave(u, dtype_out_time, data, arc) ==
    /\ pc[u] = "idle"
    /\ local[u] = Idle
    /\ pc' = [pc EXCEPT ![u] = "update"]
    /\ local' = [local EXCEPT ![u] =
                    Frame(SaveStart(EmptyDict, NoStores, data, dtype_out_time,
                                    TRUE, arc))]
    /\ UNCHANGED <<calc, args, data_out, scratch, archive, dirs, stores0, hist,
                   loc>>

\* The frame of the unit's running save with the shared stores as they are.
Cur(u) ==
    [local[u] EXCEPT !.fs = scratch, !.ar = archive, !.dirs = dirs,
                     !.data_out = data_out[u]]

\* The unit's statement has run and left st.
Apply(u, st) ==
    /\ pc' = [pc EXCEPT ![u] = st.pc]
    /\ local' = [local EXCEPT ![u] = Frame(st)]
    /\ data_out' = [data_out EXCEPT ![u] = st.data_out]
    /\ scratch' = st.fs
    /\ archive' = st.ar
    /\ dirs' = st.dirs
    /\ UNCHANGED <<calc, args, stores0, hist, loc>>

\* save: the update of data_out
UpdateDataOut(u) ==
    /\ pc[u] = "update"
    /\ Apply(u, StepUpdate(calc[u], Cur(u)))

\* _save_to_scratch: the test of dir_scratch
ScratchIsdir(u) ==
    /\ pc[u] = "scratch_isdir"
    /\ Apply(u, StepScratchIsdir(calc[u], Cur(u)))

\* _save_to_scratch: os.makedirs
ScratchMakedirs(u) ==
    /\ pc[u] = "scratch_makedirs"
    /\ Apply(u, StepScratchMakedirs(calc[u], Cur(u)))

\* _save_to_scratch: the read of the regional file
ScratchOpen(u) ==
    /\ pc[u] = "scratch_open"
    /\ Apply(u, StepScratchOpen(calc[u], Cur(u)))

\* _save_to_scratch: to_netcdf
ScratchWrite(u) ==
    /\ pc[u] = "scratch_write"
    /\ Apply(u, StepScratchWrite(calc[u], Cur(u)))

\* _save_to_archive: the test of dir_archive
ArchiveIsdir(u) ==
    /\ pc[u] = "archive_isdir"
    /\ Apply(u, StepArchiveIsdir(calc[u], Cur(u)))

\* _save_to_archive: os.makedirs
ArchiveMakedirs(u) ==
    /\ pc[u] = "archive_makedirs"
    /\ Apply(u, StepArchiveMakedirs(calc[u], Cur(u)))

\* _save_to_archive: the tarball is opened to append
ArchiveOpen(u) ==
    /\ pc[u] = "archive_open"
    /\ Apply(u, StepArchiveOpen(calc[u], Cur(u)))

\* _save_to_archive: tar.extract
ArchiveExtract(u) ==
    /\ pc[u] = "archive_extract"
    /\ Apply(u, StepArchiveExtract(calc[u], Cur(u)))

\* _save_to_archive: rmtree and tar --delete
ArchiveDelete(u) ==
    /\ pc[u] = "archive_delete"
    /\ Apply(u, StepArchiveDelete(calc[u], Cur(u)))

\* _save_to_archive: tar.add
ArchiveAdd(u) ==
    /\ pc[u] = "archive_add"
    /\ Apply(u, StepArchiveAdd(calc[u], Cur(u)))

\* save: the path is printed
PrintPath(u) ==
    /\ pc[u] = "print"
    /\ Apply(u, StepPrint(calc[u], Cur(u)))

NextConc ==
    \E u \in Units :
        \/ \E in \in ConcInputs(u), arc \in BOOLEAN :
              StartSave(u, in[1], in[2], arc)
        \/ UpdateDataOut(u)
        \/ ScratchIsdir(u)
        \/ ScratchMakedirs(u)
        \/ ScratchOpen(u)
        \/ ScratchWrite(u)
        \/ ArchiveIsdir(u)
        \/ ArchiveMakedirs(u)
        \/ ArchiveOpen(u)
        \/ ArchiveExtract(u)
        \/ ArchiveDelete(u)
        \/ ArchiveAdd(u)
        \/ PrintPath(u)

SpecConc == InitConc /\ [][NextConc]_vars

\* The stores after the save of u and then the save of v, each run to its
\* end, from the stores the scenario started with.
Serial(u, v) ==
    LET s1 == save(calc[u], EmptyDict, stores0, local[u].data, local[u].kind,
                   TRUE, local[u].archive)
        s2 == save(calc[v], EmptyDict,
                   [fs |-> s1.fs, ar |-> s1.ar, dirs |-> s1.dirs],
                   local[v].data, local[v].kind, TRUE, local[v].archive)
    IN  [fs |-> s2.fs, ar |-> s2.ar]

SerialOutcomes == {Serial("u1", "u2"), Serial("u2", "u1")}

BothFinished == \A u \in Units : pc[u] \in {"done", "raised"}
BothDone == \A u \in Units : pc[u] = "done"

SameTarball ==
    /\ \A u \in Units : local[u].archive
    /\ calc["u1"].path_archive = calc["u2"].path_archive

\* C7: units that differ in variable, run or date range and do not both
\* write to one archive tarball end, whatever the interleaving of their
\* saves, with each unit's scratch artifact as some serial execution of the
\* two saves leaves it.
C7_IndependentUnits ==
    (/\ BothFinished
     /\ \/ args["u1"].var # args["u2"].var
        \/ args["u1"].run # args["u2"].run
        \/ args["u1"].date_range # args["u2"].date_range
     /\ ~SameTarball)
    => \A u \in Units :
          LET path == calc[u].path_scratch[local[u].kind]
          IN  \E s \in SerialOutcomes :
                 /\ path \in DOMAIN scratch <=> path \in DOMAIN s.fs
                 /\ path \in DOMAIN scratch => scratch[path] = s.fs[path]

\* The names of the members of a tarball.
Names(tar) == {tar[i].name : i \in DOMAIN tar}

\* Two entries with one name.
TwoEntries(tar) == \E n \in Names(tar) : Len(Members(tar, n)) > 1

\* The name of the entry the unit's save adds to the tarball.
EntryName(u) == calc[u].file_name[local[u].kind]

NonSerialTarball(path) == \A s \in SerialOutcomes : archive[path] # s.ar[path]

\* The tarball holds one entry of the name, with a content that no serial
\* execution archives under it.
MixedEntry(path, n) ==
    /\ Len(Members(archive[path], n)) = 1
    /\ \A s \in SerialOutcomes :
          TarGet(archive[path], n).ds # TarGet(s.ar[path], n).ds

\* C8: the archive update is not atomic.  After two saves to one tarball
\* that ran to their end in any interleaving, a tarball that is as no
\* serial execution leaves it is that tarball, the two saves wrote the same
\* entry name, and the tarball holds two entries with that name or one
\* entry with a content no serial execution archives; saves of different
\* entry names leave a serial tarball.  The witness is a tarball with two
\* entries of one name.
C8_ArchiveNotAtomic ==
    (BothDone /\ SameTarball) =>
        \A path \in DOMAIN archive :
            NonSerialTarball(path) =>
                /\ path = calc["u1"].path_archive
                /\ EntryName("u1") = EntryName("u2")
                /\ \/ TwoEntries(archive[path])
                   \/ MixedEntry(path, EntryName("u1"))

C8_Witness ==
    /\ BothDone
    /\ SameTarball
    /\ NonSerialTarball(calc["u1"].path_archive)
    /\ TwoEntries(archive[calc["u1"].path_archive])

-----------------------------------------------------------------------------
(* The paths of Calc units built in two sessions of the program.  A        *)
(* session is one Python process, and the order in which a set of strings  *)
(* is iterated is fixed by the hash seed of the process: each build meets  *)
(* one of the orders.                                                      *)

\* A model whose runs attribute holds the runs r1 and r2 and, as a third
\* value, the tuple (r1, r2): the only way a tuple of runs passes the test
\* of membership in model.runs.values().
PathModel ==
    [name |-> "am2",
     runs |-> {OneRun("r1"), OneRun("r2"), ManyRuns(<<"r1", "r2">>)}]

PathRuns ==
    {OneRun("r1"), OneRun("r2"), ManyRuns(<<"r1", "r2">>),
     ManyRuns(<<"r2", "r1">>)}

PathArgs ==
    {[ArgsOf("u1") EXCEPT !.model = PathModel, !.run = r, !.var = v,
                          !.ens_mem = e, !.date_range = d] :
        r \in PathRuns, v \in {"v1", "v2"}, e \in {<< >>, <<0>>},
        d \in {<< <<3, 1>>, <<6, 12>> >>, << <<4, 1>>, <<6, 12>> >>,
               << <<3, 2>>, <<6, 12>> >>}}

InitPath ==
    \E a1 \in PathArgs, a2 \in PathArgs :
        /\ args = [u \in Units |-> IF u = "u1" THEN a1 ELSE a2]
        /\ calc = [u \in Units |-> Idle]
        /\ data_out = [u \in Units |-> EmptyDict]
        /\ scratch = EmptyDict
        /\ archive = EmptyDict
        /\ dirs = {}
        /\ stores0 = NoStores
        /\ pc = [u \in Units |-> "idle"]
        /\ local = [u \in Units |-> Idle]
        /\ hist = << >>
        /\ loc = Idle

\* Calc(CalcInterface(...)) in the session of the unit.
Build(u) ==
    /\ pc[u] = "idle"
    /\ \E iter \in IterOrders(args[u]) :
          LET ci == CalcInterface(args[u], iter)
          IN  IF ci.exc # "none"
              THEN /\ calc' = [calc EXCEPT ![u] = ci]
                   /\ pc' = [pc EXCEPT ![u] = "raised"]
              ELSE /\ calc' = [calc EXCEPT ![u] = CalcInit(ci)]
                   /\ pc' = [pc EXCEPT ![u] = "built"]
    /\ UNCHANGED <<args, data_out, scratch, archive, dirs, stores0, local, hist,
                   loc>>

NextPath == \E u \in Units : Build(u)

SpecPath == InitPath /\ [][NextPath]_vars

-----------------------------------------------------------------------------
(* The location of input files.  A path is the sequence of its components; *)
(* a file of the GFDL layout is named by the variable name and the first   *)
(* and last year it holds.  disk is the set of files that exist.           *)

MaxYear == 3

VarNames == {<<"n1">>, <<"n1", "n2">>, <<"n2", "n1">>}

FileA == <<"a.nc">>
FileB == <<"b.nc">>
DataInDirec == "/data"

\* The paths of the map strategies in ascending order of their strings.
PathOrder == << <<DataInDirec, "a.nc">>, <<DataInDirec, "b.nc">>, FileA, FileB >>

PathRank(path) == CHOOSE i \in DOMAIN PathOrder : PathOrder[i] = path

\* list(set(files)) followed by files.sort(), for paths of the maps.
RECURSIVE SortedPaths(_)
SortedPaths(S) ==
    IF S = {} THEN << >>
    ELSE LET m == CHOOSE x \in S : \A y \in S : PathRank(x) <= PathRank(y)
         IN  <<m>> \o SortedPaths(S \ {m})

\* The lists of files a map can hold for a name.
FileLists == {<< >>, <<FileA>>, <<FileB>>, <<FileB, FileA>>, <<FileA, FileA>>}

\* The dicts from variable name to list of files.
NameMaps ==
    UNION {[N -> FileLists] : N \in SUBSET {"n1", "n2"}}

\* io.data_name_gfdl: the file that holds the year, of the files that each
\* hold data_in_dur years starting from data_in_start_yr.
data_name_gfdl(name, data_yr, data_in_start_yr, data_in_dur) ==
    LET extra_yrs == (data_yr - data_in_start_yr) % data_in_dur
        data_in_yr == data_yr - extra_yrs
    IN  <<name, data_in_yr, data_in_yr + data_in_dur - 1>>

\* list(set(files)) followed by files.sort(), for files of one variable
\* name in the GFDL layout: the year is written with four digits.
RECURSIVE SortedGfdl(_)
SortedGfdl(S) ==
    IF S = {} THEN << >>
    ELSE LET m == CHOOSE x \in S : \A y \in S : x[2] <= y[2]
         IN  <<m>> \o SortedGfdl(S \ {m})

\* GFDLDataLoader._input_data_paths_gfdl
_input_data_paths_gfdl(self, name, start_year, end_year) ==
    SortedGfdl({data_name_gfdl(name, year, self.data_start_year, self.data_dur) :
                   year \in start_year..end_year})

\* NestedDictDataLoader._generate_file_set from the name at index i on.
RECURSIVE NestedFrom(_, _, _, _)
NestedFrom(self, names, intvl_in, i) ==
    IF i > Len(names) THEN [exc |-> "KeyError", files |-> << >>]
    ELSE IF /\ intvl_in \in DOMAIN self.file_map
            /\ names[i] \in DOMAIN self.file_map[intvl_in]
    THEN [exc |-> "none", files |-> self.file_map[intvl_in][names[i]]]
    ELSE NestedFrom(self, names, intvl_in, i + 1)

\* DictDataLoader._generate_file_set
DictDataLoader_generate_file_set(self, intvl_in) ==
    IF intvl_in \in DOMAIN self.flat_map
    THEN [exc |-> "none", files |-> self.flat_map[intvl_in]]
    ELSE [exc |-> "KeyError", files |-> << >>]

NestedDictDataLoader_generate_file_set(self, names, intvl_in) ==
    NestedFrom(self, names, intvl_in, 1)

\* GFDLDataLoader._generate_file_set from the name at index i on.
RECURSIVE GfdlFrom(_, _, _, _, _)
GfdlFrom(self, names, start_year, end_year, i) ==
    IF i > Len(names) THEN [exc |-> "IOError", files |-> << >>]
    ELSE LET file_set == _input_data_paths_gfdl(self, names[i], start_year,
                                                end_year)
         IN  IF \A j \in DOMAIN file_set : file_set[j] \in self.disk
             THEN [exc |-> "none", files |-> file_set]
             ELSE GfdlFrom(self, names, start_year, end_year, i + 1)

GFDLDataLoader_generate_file_set(self, names, start_year, end_year) ==
    GfdlFrom(self, names, start_year, end_year, 1)

\* Calc._data_in_files_one_dir
_data_in_files_one_dir(self, name) ==
    IF self.intvl_in \in DOMAIN self.file_map
    THEN IF name \in DOMAIN self.file_map[self.intvl_in]
         THEN [exc |-> "none", files |-> self.file_map[self.intvl_in][name]]
         ELSE [exc |-> "KeyError", files |-> << >>]
    ELSE IF name \in DOMAIN self.file_map
         THEN [exc |-> "none", files |-> self.file_map[name]]
         ELSE [exc |-> "KeyError", files |-> << >>]

\* The path _get_input_data_paths_one_dir keeps for the entry nc: nc when
\* it is a file, the entry under data_in_direc when that is one, none
\* otherwise.
OneDirPaths(self, nc) ==
    IF nc \in self.disk THEN {nc}
    ELSE IF <<DataInDirec>> \o nc \in self.disk THEN {<<DataInDirec>> \o nc}
    ELSE {}

\* Calc._get_input_data_paths_one_dir
_get_input_data_paths_one_dir(self, name) ==
    LET f == _data_in_files_one_dir(self, name)
    IN  IF f.exc # "none" THEN f
        ELSE [exc |-> "none",
              files |-> SortedPaths(UNION {OneDirPaths(self, f.files[j]) :
                                              j \in DOMAIN f.files})]

\* Calc._get_input_data_paths from the name at index i on, for a layout of
\* one directory or of the GFDL directories; another layout is a ValueError.
RECURSIVE CalcPathsFrom(_, _, _, _, _)
CalcPathsFrom(self, names, start_year, end_year, i) ==
    IF i > Len(names) THEN [exc |-> "IOError", files |-> << >>]
    ELSE IF self.data_in_dir_struc = "one_dir"
    THEN LET r == _get_input_data_paths_one_dir(self, names[i])
         IN  IF r.exc = "KeyError"
             THEN CalcPathsFrom(self, names, start_year, end_year, i + 1)
             ELSE r
    ELSE IF self.data_in_dir_struc = "gfdl"
    THEN [exc |-> "none",
          files |-> _input_data_paths_gfdl(self, names[i], start_year, end_year)]
    ELSE [exc |-> "ValueError", files |-> << >>]

_get_input_data_paths(self, names, start_year, end_year) ==
    CalcPathsFrom(self, names, start_year, end_year, 1)

\* The files of the GFDL layout that there can be.
GfdlFiles(start_yr, dur) ==
    {data_name_gfdl(n, y, start_yr, dur) : n \in {"n1", "n2"}, y \in 1..MaxYear}

\* What a location is asked with: the strategy, the names of the variable,
\* the interval, the years, the map (file_map from names to lists of files,
\* flat_map from intervals to lists of files) or the layout, and the files
\* on disk.
LocConfigs ==
    LET base == [pc |-> "idle", strategy |-> "nested", names |-> <<"n1">>,
                 intvl_in |-> "monthly", start_year |-> 1, end_year |-> 1,
                 file_map |-> EmptyDict, flat_map |-> EmptyDict,
                 data_in_dir_struc |-> "one_dir",
                 data_start_year |-> 1, data_dur |-> 1, disk |-> {},
                 result |-> [exc |-> "none", files |-> << >>]]
        nested ==
            {[base EXCEPT !.names = ns, !.intvl_in = iv,
                          !.file_map = ("monthly" :> m), !.disk = d] :
                ns \in VarNames, iv \in {"monthly", "daily"}, m \in NameMaps,
                d \in SUBSET {FileA, FileB}}
        dict ==
            {[base EXCEPT !.strategy = "dict", !.intvl_in = iv,
                          !.flat_map = ("monthly" :> fl), !.disk = d] :
                iv \in {"monthly", "daily"}, fl \in FileLists,
                d \in SUBSET {FileA, FileB}}
        gfdl ==
            UNION {{[base EXCEPT !.strategy = st, !.data_in_dir_struc = "gfdl",
                                 !.names = ns, !.start_year = sy,
                                 !.end_year = ey, !.data_dur = dur, !.disk = d] :
                       d \in SUBSET GfdlFiles(1, dur)} :
                   st \in {"gfdl", "calc"}, ns \in VarNames, dur \in {1, 2},
                   sy \in 1..MaxYear, ey \in 1..MaxYear}
        one_dir ==
            {[base EXCEPT !.strategy = "calc", !.names = ns,
                          !.file_map = fm, !.data_in_dir_struc = ds,
                          !.disk = d] :
                ns \in VarNames,
                fm \in NameMaps \cup {("monthly" :> m) : m \in NameMaps},
                ds \in {"one_dir", "other"},
                d \in SUBSET {FileA, FileB, <<DataInDirec>> \o FileA}}
    IN  nested \cup dict \cup {c \in gfdl : c.start_year <= c.end_year}
            \cup one_dir

InitLoc ==
    /\ loc \in LocConfigs
    /\ args = [u \in Units |-> ArgsOf(u)]
    /\ calc = [u \in Units |-> NewUnit(ArgsOf(u))]
    /\ data_out = [u \in Units |-> EmptyDict]
    /\ scratch = EmptyDict
    /\ archive = EmptyDict
    /\ dirs = {}
    /\ stores0 = NoStores
    /\ pc = [u \in Units |-> "idle"]
    /\ local = [u \in Units |-> Idle]
    /\ hist = << >>

Located(result) ==
    /\ loc' = [loc EXCEPT !.pc = "done", !.result = result]
    /\ UNCHANGED <<calc, args, data_out, scratch, archive, dirs, stores0, pc,
                   local, hist>>

\* NestedDictDataLoader._generate_file_set
LocateNested ==
    /\ loc.pc = "idle"
    /\ loc.strategy = "nested"
    /\ Located(NestedDictDataLoader_generate_file_set(loc, loc.names,
                                                      loc.intvl_in))

\* DictDataLoader._generate_file_set
LocateDict ==
    /\ loc.pc = "idle"
    /\ loc.strategy = "dict"
    /\ Located(DictDataLoader_generate_file_set(loc, loc.intvl_in))

\* GFDLDataLoader._generate_file_set
LocateGFDL ==
    /\ loc.pc = "idle"
    /\ loc.strategy = "gfdl"
    /\ Located(GFDLDataLoader_generate_file_set(loc, loc.names, loc.start_year,
                                                loc.end_year))

\* Calc._get_input_data_paths
LocateCalc ==
    /\ loc.pc = "idle"
    /\ loc.strategy = "calc"
    /\ Located(_get_input_data_paths(loc, loc.names, loc.start_year,
                                     loc.end_year))

NextLoc == LocateNested \/ LocateDict \/ LocateGFDL \/ LocateCalc

SpecLoc == InitLoc /\ [][NextLoc]_vars

\* The file set the strategy holds for the name: the list of the map, or
\* the files of the GFDL layout for the years; none when the map has no
\* entry for the name.
FileSetOf(name) ==
    IF loc.data_in_dir_struc = "gfdl"
    THEN Range(_input_data_paths_gfdl(loc, name, loc.start_year, loc.end_year))
    ELSE LET f == _data_in_files_one_dir(loc, name)
         IN  IF f.exc # "none" THEN {} ELSE Range(f.files)

OneDir == loc.strategy = "calc" /\ loc.data_in_dir_struc = "one_dir"

\* The file is there, as given or under the data directory.
Present(file) ==
    \/ file \in loc.disk
    \/ OneDir /\ <<DataInDirec>> \o file \in loc.disk

\* The path under which a file that is there is returned.
Resolved(file) ==
    IF OneDir /\ file \notin loc.disk THEN <<DataInDirec>> \o file ELSE file

Qualifies(name) ==
    /\ FileSetOf(name) # {}
    /\ \A f \in FileSetOf(name) : Present(f)

\* C10: the location returns the file set of the first of the variable's
\* names that has a non-empty file set with every file present, and fails
\* with a not-found error when no name has one.
C10_FirstQualifyingName ==
    (loc.pc = "done" /\ loc.data_in_dir_struc # "other"
                     /\ loc.strategy # "dict") =>
        LET q == {i \in DOMAIN loc.names : Qualifies(loc.names[i])}
        IN  IF q = {}
            THEN loc.result.exc \in {"IOError", "KeyError"}
            ELSE LET first == CHOOSE i \in q : \A j \in q : i <= j
                 IN  /\ loc.result.exc = "none"
                     /\ Range(loc.result.files)
                           = {Resolved(f) : f \in FileSetOf(loc.names[first])}

\* The place of a located file in the ascending order of the paths.
FileRank(file) ==
    IF loc.data_in_dir_struc = "gfdl" THEN file[2] ELSE PathRank(file)

\* C11: every file list a loader returns, from the flat map, the nested
\* map or the GFDL layout, is in ascending order and has no path twice.
C11_SortedNoDuplicates ==
    (/\ loc.pc = "done"
     /\ loc.strategy \in {"dict", "nested", "gfdl"}
     /\ loc.result.exc = "none")
    => \A i \in DOMAIN loc.result.files : \A j \in DOMAIN loc.result.files :
          i < j => FileRank(loc.result.files[i]) < FileRank(loc.result.files[j])

-----------------------------------------------------------------------------
(* Calls of the functions of DataLoader that work on a Dataset already     *)
(* read.  loc holds the arguments of the call and, when the call is over,  *)
(* its result.                                                             *)

\* The variables other than loc, which these calls leave alone.
RestInit ==
    /\ args = [u \in Units |-> ArgsOf(u)]
    /\ calc = [u \in Units |-> NewUnit(ArgsOf(u))]
    /\ data_out = [u \in Units |-> EmptyDict]
    /\ scratch = EmptyDict
    /\ archive = EmptyDict
    /\ dirs = {}
    /\ stores0 = NoStores
    /\ pc = [u \in Units |-> "idle"]
    /\ local = [u \in Units |-> Idle]
    /\ hist = << >>

\* The call returns result or raises the exception result.exc.
Returns(result) ==
    /\ loc' = [loc EXCEPT !.pc = "done", !.result = result]
    /\ UNCHANGED <<calc, args, data_out, scratch, archive, dirs, stores0, pc,
                   local, hist>>

\* Var.names: the name of the variable followed by its alt_names.
SelNames ==
    {<<"n1">>, <<"n1", "n2">>, <<"n2", "n1">>, <<"n1", "n2", "n3">>,
     <<"n3", "n1", "n2">>}

\* A Dataset: its variables and their data.
Datasets ==
    UNION {[N -> Values] : N \in SUBSET {"n1", "n2", "n3", "other"}}

\* ds[name] as a DataArray that carries its name.
NamedArray(ds, name) == [name |-> name, val |-> ds[name]]

\* DataArray.rename(name_dict): the array takes the new name the dict has
\* for its own name.
Rename(da, name_dict) ==
    IF da.name \in DOMAIN name_dict THEN [da EXCEPT !.name = name_dict[da.name]]
    ELSE da

NoArray == [name |-> "", val |-> 0]

\* DataLoader._sel_var without the rename to var.name.
RECURSIVE SelVarFrom_NoRename(_, _, _)
SelVarFrom_NoRename(ds, names, i) ==
    IF i > Len(names) THEN [exc |-> "KeyError", da |-> NoArray]
    ELSE IF names[i] \in DOMAIN ds
    THEN [exc |-> "none", da |-> NamedArray(ds, names[i])]
    ELSE SelVarFrom_NoRename(ds, names, i + 1)

\* DataLoader._sel_var from the name at index i on; var.name is names[1].
RECURSIVE SelVarFrom(_, _, _)
SelVarFrom(ds, names, i) ==
    IF i > Len(names) THEN [exc |-> "KeyError", da |-> NoArray]
    ELSE IF names[i] \in DOMAIN ds
    THEN [exc |-> "none",
          da |-> Rename(NamedArray(ds, names[i]), (names[i] :> names[1]))]
    ELSE SelVarFrom(ds, names, i + 1)

_sel_var(ds, names) == SelVarFrom(ds, names, 1)

\* The choice of the array in Calc._create_input_data_obj, which keeps the
\* name under which the array was found.
RECURSIVE CalcArrFrom(_, _, _)
CalcArrFrom(ds, names, i) ==
    IF i > Len(names) THEN [exc |-> "KeyError", da |-> NoArray]
    ELSE IF names[i] \in DOMAIN ds
    THEN [exc |-> "none", da |-> NamedArray(ds, names[i])]
    ELSE CalcArrFrom(ds, names, i + 1)

InitSel ==
    /\ loc \in [pc : {"idle"}, op : {"_sel_var", "_create_input_data_obj"},
                names : SelNames, ds : Datasets,
                result : {[exc |-> "none", da |-> NoArray]}]
    /\ RestInit

SelVar ==
    /\ loc.pc = "idle"
    /\ loc.op = "_sel_var"
    /\ Returns(_sel_var(loc.ds, loc.names))

CreateInputDataObj ==
    /\ loc.pc = "idle"
    /\ loc.op = "_create_input_data_obj"
    /\ Returns(CalcArrFrom(loc.ds, loc.names, 1))

NextSel == SelVar \/ CreateInputDataObj

SpecSel == InitSel /\ [][NextSel]_vars

\* The indices of the names of the variable that the Dataset holds.
PresentNames == {i \in DOMAIN loc.names : loc.names[i] \in DOMAIN loc.ds}

\* C12: _sel_var returns the data of the first of var.names that the
\* Dataset holds, under the name var.name, and raises KeyError when the
\* Dataset holds none of them.
C12_SelVarFirstPresent ==
    (loc.pc = "done" /\ loc.op = "_sel_var") =>
        IF PresentNames = {}
        THEN loc.result.exc = "KeyError"
        ELSE LET first == CHOOSE i \in PresentNames :
                              \A j \in PresentNames : i <= j
             IN  /\ loc.result.exc = "none"
                 /\ loc.result.da.name = loc.names[1]
                 /\ loc.result.da.val = loc.ds[loc.names[first]]

\* An alias is the first name present, a later alias holds other data.
C12_Witness ==
    /\ loc.pc = "done"
    /\ loc.op = "_sel_var"
    /\ loc.names = <<"n1", "n2", "n3">>
    /\ DOMAIN loc.ds = {"n2", "n3", "other"}
    /\ loc.ds["n2"] # loc.ds["n3"]
    /\ loc.result = [exc |-> "none", da |-> [name |-> "n1", val |-> loc.ds["n2"]]]

-----------------------------------------------------------------------------
(* The grid attributes of a Dataset.  A Dataset is here a function from    *)
(* the names of its fields to their role, coordinate or data variable, and *)
(* to src, the name the field had when the Dataset was read.               *)

\* internal_names.GRID_ATTRS, in its order.
GRID_ATTRS ==
    << [int |-> "lat", ext |-> {"lat", "latitude", "LATITUDE", "y", "yto"}],
       [int |-> "lat_bounds", ext |-> {"latb", "lat_bnds", "lat_bounds"}],
       [int |-> "lon", ext |-> {"lon", "longitude", "LONGITUDE", "x", "xto"}],
       [int |-> "lon_bounds", ext |-> {"lonb", "lon_bnds", "lon_bounds"}],
       [int |-> "zsurf", ext |-> {"zsurf"}],
       [int |-> "sfc_area", ext |-> {"area", "sfc_area"}],
       [int |-> "land_mask", ext |-> {"land_mask"}],
       [int |-> "pk", ext |-> {"pk"}],
       [int |-> "bk", ext |-> {"bk"}],
       [int |-> "phalf", ext |-> {"phalf"}],
       [int |-> "pfull", ext |-> {"pfull"}],
       [int |-> "level", ext |-> {"level", "lev", "plev"}],
       [int |-> "time", ext |-> {"time"}],
       [int |-> "average_DT", ext |-> {"average_DT"}],
       [int |-> "time_bounds", ext |-> {"time_bounds"}],
       [int |-> "nv", ext |-> {"nv"}],
       [int |-> "avg_start_date", ext |-> {"avg_start_date"}],
       [int |-> "avg_end_date", ext |-> {"avg_end_date"}] >>

\* The names the fields of the Datasets of the scenario are drawn from.
FieldNames == {"lat", "latitude", "y", "latb", "area", "time", "precip"}

GridDatasets ==
    UNION {[N -> {"coord", "data"}] : N \in SUBSET FieldNames}

\* The Dataset as read: every field under its own name.
AsRead(roles) == [n \in DOMAIN roles |-> [role |-> roles[n], src |-> n]]

\* Dataset.rename({k: v}, inplace=True): ValueError when another field has
\* the new name.
DatasetRename(ds, k, v) ==
    IF k = v THEN [exc |-> "none", ds |-> ds]
    ELSE IF v \in DOMAIN ds THEN [exc |-> "ValueError", ds |-> ds]
    ELSE [exc |-> "none",
          ds |-> [n \in (DOMAIN ds \ {k}) \cup {v} |->
                     IF n = v THEN ds[k] ELSE ds[n]]]

\* DataLoader.rename_grid_attrs from the entry at index i on: the Datasets
\* it can leave, one for each spelling set.pop() can give.
RECURSIVE RenameFrom(_, _)
RenameFrom(ds, i) ==
    IF i > Len(GRID_ATTRS) THEN {[exc |-> "none", ds |-> ds]}
    ELSE LET ds_coord_name == GRID_ATTRS[i].ext \cap DOMAIN ds
         IN  IF ds_coord_name = {} THEN RenameFrom(ds, i + 1)
             ELSE UNION {LET r == DatasetRename(ds, k, GRID_ATTRS[i].int)
                         IN  IF r.exc # "none" THEN {r}
                             ELSE RenameFrom(r.ds, i + 1) :
                         k \in ds_coord_name}

rename_grid_attrs(ds) == RenameFrom(ds, 1)

\* set_grid_attrs_as_coords that leaves the roles as they are.
set_grid_attrs_as_coords_Keep(ds) == ds

\* DataLoader.set_grid_attrs_as_coords
set_grid_attrs_as_coords(ds) ==
    LET int_names == {GRID_ATTRS[i].int : i \in DOMAIN GRID_ATTRS}
        grid_attrs_in_ds == int_names \cap DOMAIN ds
    IN  [n \in DOMAIN ds |->
            IF n \in grid_attrs_in_ds THEN [ds[n] EXCEPT !.role = "coord"]
            ELSE ds[n]]

InitGrid ==
    /\ \E roles \in GridDatasets :
          loc = [pc |-> "idle", ds0 |-> AsRead(roles),
                 result |-> [exc |-> "none", ds |-> AsRead(roles)]]
    /\ RestInit

\* DataLoader.rename_grid_attrs, the preprocess step of the read.
RenameGridAttrs ==
    /\ loc.pc = "idle"
    /\ \E r \in rename_grid_attrs(loc.ds0) :
          /\ loc' = [loc EXCEPT !.pc = IF r.exc = "none" THEN "renamed"
                                       ELSE "raised",
                                !.result = r]
          /\ UNCHANGED <<calc, args, data_out, scratch, archive, dirs, stores0,
                         pc, local, hist>>

\* DataLoader.set_grid_attrs_as_coords on the renamed Dataset.
SetGridAttrsAsCoords ==
    /\ loc.pc = "renamed"
    /\ Returns([exc |-> "none", ds |-> set_grid_attrs_as_coords(loc.result.ds)])

NextGrid == RenameGridAttrs \/ SetGridAttrsAsCoords

SpecGrid == InitGrid /\ [][NextGrid]_vars

\* The names of the alias table.
Spellings == UNION {GRID_ATTRS[i].ext : i \in DOMAIN GRID_ATTRS}

\* C13: after rename_grid_attrs and set_grid_attrs_as_coords, every
\* attribute of the alias table that the Dataset held under one of its
\* spellings is held under its canonical name, as a coordinate, and every
\* field whose name is not in the table has its name and role as before.
C13_GridNormalised ==
    loc.pc = "done" =>
        /\ \A i \in DOMAIN GRID_ATTRS :
              GRID_ATTRS[i].ext \cap DOMAIN loc.ds0 # {} =>
                 /\ GRID_ATTRS[i].int \in DOMAIN loc.result.ds
                 /\ loc.result.ds[GRID_ATTRS[i].int].role = "coord"
                 /\ loc.result.ds[GRID_ATTRS[i].int].src
                       \in GRID_ATTRS[i].ext \cap DOMAIN loc.ds0
        /\ \A n \in DOMAIN loc.ds0 \ Spellings :
              /\ n \in DOMAIN loc.result.ds
              /\ loc.result.ds[n] = loc.ds0[n]

\* A latitude read as a data variable under an alternate spelling, next to
\* a field that is no grid attribute.
C13_Witness ==
    /\ loc.pc = "done"
    /\ DOMAIN loc.ds0 = {"latitude", "area", "precip"}
    /\ loc.ds0["latitude"].role = "data"
    /\ loc.result.ds["lat"] = [role |-> "coord", src |-> "latitude"]
    /\ loc.result.ds["precip"] = loc.ds0["precip"]

\* ---------------------------------------------------------------------
\* Time-offset correction and date selection
\* (DataLoader.load_variable, Calc._get_input_data).
\* A time axis is a sequence of hours; an interval label is the sequence
\* of its characters.

\* The decimal digits; int(c) of one character is its place in the table.
Digit == <<"0", "1", "2", "3", "4", "5", "6", "7", "8", "9">>

RECURSIVE Str(_)
\* The decimal text of a natural number.
Str(n) ==
    IF n < 10 THEN <<Digit[n + 1]>>
    ELSE Str(n \div 10) \o <<Digit[(n % 10) + 1]>>

\* The label of N-hourly data, '<N>hr'.
HourlyIntvl(N) == Str(N) \o <<"h", "r">>

\* The sampling intervals of the hourly data sets.
Hours == {3, 6, 12}

monthly == <<"m", "o", "n", "t", "h", "l", "y">>

Intervals == {HourlyIntvl(N) : N \in Hours} \cup {monthly}

\* str.endswith
endswith(s, suffix) ==
    /\ Len(s) >= Len(suffix)
    /\ SubSeq(s, Len(s) - Len(suffix) + 1, Len(s)) = suffix

\* int() of a one-character string: [exc, val].
int(c) ==
    IF \E d \in DOMAIN Digit : Digit[d] = c
    THEN [exc |-> "none", val |-> (CHOOSE d \in DOMAIN Digit : Digit[d] = c) - 1]
    ELSE [exc |-> "ValueError", val |-> 0]

\* The time_offset argument: None, or a dict of days and hours.
NoOffset == [tag |-> "None", days |-> 0, hours |-> 0]

TimeOffsets ==
    {NoOffset,
     [tag |-> "dict", days |-> 1, hours |-> 0],
     [tag |-> "dict", days |-> 0, hours |-> 3]}

\* times.apply_time_offset: every timestamp moved by the given days and
\* hours.
apply_time_offset(time, days, hours) ==
    [i \in DOMAIN time |-> time[i] + 24 * days + hours]

\* DataLoader._maybe_apply_time_shift
DataLoader_maybe_apply_time_shift(time, time_offset, DataAttrs) ==
    IF time_offset.tag # "None"
    THEN [exc |-> "none",
          time |-> apply_time_offset(time, time_offset.days,
                                     time_offset.hours)]
    ELSE [exc |-> "none", time |-> time]

\* The automatic offset of GFDLDataLoader for hourly data: the first
\* character of the interval label, negated.
GfdlHourlyOffset(intvl_in) ==
    LET first == int(intvl_in[1])
    IN  [first EXCEPT !.val = -1 * first.val]

\* GFDLDataLoader_maybe_apply_time_shift that applies the automatic offset
\* of instantaneous data on top of an explicit time_offset.
GFDLDataLoader_maybe_apply_time_shift_Both(time, time_offset, DataAttrs) ==
    LET explicit == IF time_offset.tag # "None"
                    THEN apply_time_offset(time, time_offset.days,
                                           time_offset.hours)
                    ELSE time
    IN  IF "dtype_in_time" \in DataAttrs.keys
           /\ DataAttrs.dtype_in_time = "inst"
           /\ "intvl_in" \in DataAttrs.keys
           /\ endswith(DataAttrs.intvl_in, <<"h", "r">>)
        THEN [exc |-> "none",
              time |-> apply_time_offset(explicit, 0,
                           GfdlHourlyOffset(DataAttrs.intvl_in).val)]
        ELSE [exc |-> "none", time |-> explicit]

\* GFDLDataLoader._maybe_apply_time_shift; a key missing from DataAttrs
\* raises KeyError, which the method swallows.
GFDLDataLoader_maybe_apply_time_shift(time, time_offset, DataAttrs) ==
    IF time_offset.tag # "None"
    THEN [exc |-> "none",
          time |-> apply_time_offset(time, time_offset.days,
                                     time_offset.hours)]
    ELSE IF "dtype_in_time" \notin DataAttrs.keys
    THEN [exc |-> "none", time |-> time]
    ELSE IF DataAttrs.dtype_in_time = "inst"
    THEN IF "intvl_in" \notin DataAttrs.keys
         THEN [exc |-> "none", time |-> time]
         ELSE LET offset == IF endswith(DataAttrs.intvl_in, <<"h", "r">>)
                            THEN GfdlHourlyOffset(DataAttrs.intvl_in)
                            ELSE [exc |-> "none", val |-> 0]
              IN  IF offset.exc # "none"
                  THEN [exc |-> offset.exc, time |-> time]
                  ELSE [exc |-> "none",
                        time |-> apply_time_offset(time, 0, offset.val)]
    ELSE [exc |-> "none", time |-> time]

\* Calc._correct_gfdl_inst_time: offset is bound for '3hr' and '6hr' only;
\* for any other interval its use raises UnboundLocalError.
_correct_gfdl_inst_time(intvl_in, time) ==
    IF intvl_in = HourlyIntvl(3)
    THEN [exc |-> "none", time |-> apply_time_offset(time, 0, -3)]
    ELSE IF intvl_in = HourlyIntvl(6)
    THEN [exc |-> "none", time |-> apply_time_offset(time, 0, -6)]
    ELSE [exc |-> "UnboundLocalError", time |-> time]

\* times.sel_time and Calc._to_desired_dates: the samples whose timestamp
\* lies in the requested range, in their order.
sel_time(time, start_date, end_date) ==
    SelectSeq(time, LAMBDA t : start_date <= t /\ t <= end_date)

\* The time axes read from disk.
TimeAxes == {<<3, 6, 9>>, <<6, 12, 18>>, <<12, 24, 36>>}

\* The requested date ranges, <<start, end>>.
DateSpans == {<<0, 6>>, <<3, 9>>, <<6, 24>>}

\* The keyword arguments handed on as DataAttrs.
AttrKeys == {{}, {"dtype_in_time"}, {"dtype_in_time", "intvl_in"}}

\* A load through a DataLoader.
LoaderConfigs ==
    {[pc |-> "idle", path |-> p, time0 |-> t, time_offset |-> o,
      DataAttrs |-> [keys |-> k, dtype_in_time |-> d, intvl_in |-> i],
      def_time |-> TRUE, start_date |-> r[1], end_date |-> r[2],
      result |-> [exc |-> "none", time |-> t]] :
        p \in {"DataLoader", "GFDLDataLoader"}, t \in TimeAxes,
        o \in TimeOffsets, k \in AttrKeys, d \in {"inst", "ts"},
        i \in Intervals, r \in DateSpans}

\* A load through Calc._get_input_data on the given path, for variables
\* with the given def_time values.
CalcConfigs(p, def_times) ==
    {[pc |-> "idle", path |-> p, time0 |-> t, time_offset |-> NoOffset,
      DataAttrs |-> [keys |-> {"dtype_in_time", "intvl_in"},
                     dtype_in_time |-> d, intvl_in |-> i],
      def_time |-> dt, start_date |-> r[1], end_date |-> r[2],
      result |-> [exc |-> "none", time |-> t]] :
        t \in TimeAxes, d \in {"inst", "ts"}, i \in Intervals,
        dt \in def_times, r \in DateSpans}

TimeConfigs ==
    LoaderConfigs \cup CalcConfigs("Calc", BOOLEAN)
        \cup CalcConfigs("CalcSigma", {TRUE})
        \cup CalcConfigs("CalcPressure", {TRUE})

InitTime ==
    /\ loc \in TimeConfigs
    /\ RestInit

\* One step of a load: the new position and the new value.
TimeStep(to, result) ==
    /\ loc' = [loc EXCEPT !.pc = IF result.exc = "none" THEN to ELSE "raised",
                          !.result = result]
    /\ UNCHANGED <<calc, args, data_out, scratch, archive, dirs, stores0, pc,
                   local, hist>>

\* DataLoader.load_variable, the _maybe_apply_time_shift call of the
\* loader in use.
MaybeApplyTimeShift ==
    /\ loc.pc = "idle"
    /\ loc.path \in {"DataLoader", "GFDLDataLoader"}
    /\ TimeStep("shifted",
                IF loc.path = "DataLoader"
                THEN DataLoader_maybe_apply_time_shift(
                         loc.time0, loc.time_offset, loc.DataAttrs)
                ELSE GFDLDataLoader_maybe_apply_time_shift(
                         loc.time0, loc.time_offset, loc.DataAttrs))

\* DataLoader.load_variable, the closing times.sel_time.
SelTime ==
    /\ loc.pc = "shifted"
    /\ loc.path \in {"DataLoader", "GFDLDataLoader"}
    /\ TimeStep("done",
                [exc |-> "none",
                 time |-> sel_time(loc.result.time, loc.start_date,
                                   loc.end_date)])

\* Calc._get_input_data, the correction of instantaneous data: for a
\* time-defined variable on the general path, and for p and dp on sigma
\* levels.
CorrectGfdlInstTime ==
    /\ loc.pc = "idle"
    /\ \/ loc.path = "Calc" /\ loc.def_time
       \/ loc.path = "CalcSigma"
    /\ loc.DataAttrs.dtype_in_time = "inst"
    /\ TimeStep("shifted",
                _correct_gfdl_inst_time(loc.DataAttrs.intvl_in, loc.time0))

\* Calc._get_input_data, the return through _to_desired_dates.
ToDesiredDates ==
    /\ \/ loc.path = "Calc" /\ loc.def_time
       \/ loc.path = "CalcSigma"
    /\ \/ loc.pc = "shifted"
       \/ loc.pc = "idle" /\ loc.DataAttrs.dtype_in_time # "inst"
    /\ TimeStep("done",
                [exc |-> "none",
                 time |-> sel_time(loc.result.time, loc.start_date,
                                   loc.end_date)])

\* Calc._get_input_data, the returns of the data as read: p and dp on
\* pressure levels, and a variable that is not time-defined.
ReturnData ==
    /\ loc.pc = "idle"
    /\ \/ loc.path = "CalcPressure"
       \/ loc.path = "Calc" /\ ~loc.def_time
    /\ TimeStep("done", loc.result)

NextTime ==
    \/ MaybeApplyTimeShift
    \/ SelTime
    \/ CorrectGfdlInstTime
    \/ ToDesiredDates
    \/ ReturnData

SpecTime == InitTime /\ [][NextTime]_vars

\* Instantaneous N-hourly data with no explicit offset, on a path that
\* applies the automatic correction.
InstHourly(N) ==
    /\ loc.path \in {"GFDLDataLoader", "Calc", "CalcSigma"}
    /\ loc.def_time
    /\ loc.time_offset = NoOffset
    /\ loc.DataAttrs.keys = {"dtype_in_time", "intvl_in"}
    /\ loc.DataAttrs.dtype_in_time = "inst"
    /\ loc.DataAttrs.intvl_in = HourlyIntvl(N)

\* C14: for instantaneous N-hourly data with no explicit offset, the
\* correction returns and every timestamp is moved by exactly minus N
\* hours, for 3, 6 and every other N.
C14_InstOffsetIsMinusN ==
    \A N \in Hours :
        (InstHourly(N) /\ loc.pc # "idle") =>
            /\ loc.pc # "raised"
            /\ loc.pc = "shifted" =>
                  loc.result.time = [i \in DOMAIN loc.time0 |->
                                        loc.time0[i] - N]

\* The shift the path in use applies to the axis as read: [exc, time].
ShiftOf ==
    IF loc.path = "DataLoader"
    THEN DataLoader_maybe_apply_time_shift(loc.time0, loc.time_offset,
                                           loc.DataAttrs)
    ELSE IF loc.path = "GFDLDataLoader"
    THEN GFDLDataLoader_maybe_apply_time_shift(loc.time0, loc.time_offset,
                                               loc.DataAttrs)
    ELSE IF loc.DataAttrs.dtype_in_time = "inst"
    THEN _correct_gfdl_inst_time(loc.DataAttrs.intvl_in, loc.time0)
    ELSE [exc |-> "none", time |-> loc.time0]

\* C15: on every path that loads a time-defined variable, the load that
\* returns holds exactly the samples whose corrected timestamp lies in the
\* requested date range, under their corrected timestamps: the shift comes
\* before the selection.
C15_ShiftBeforeSelection ==
    (loc.pc = "done" /\ loc.def_time) =>
        loc.result.time = sel_time(ShiftOf.time, loc.start_date, loc.end_date)

\* ---------------------------------------------------------------------
\* Calc.compute: input loading, the transform function, the reductions of
\* the requested output kinds, and the saves.
\* An output kind is the sequence of its dot-separated tokens.

\* The output kinds a Calc is asked for.
Kinds ==
    {<<"ts">>, <<"av">>, <<"std">>, <<"reg", "av">>, <<"reg", "std">>,
     <<"eddy", "av">>, <<"time-mean", "av">>, <<"median">>,
     <<"reg", "median">>, <<"eddy", "time-mean", "av">>}

\* Calc.dtype_out_time: a tuple of one or two kinds.
KindTuples ==
    {<<k>> : k \in Kinds} \cup
    {<<k1, k2>> : k1 \in {<<"av">>, <<"reg", "av">>},
                  k2 \in Kinds \ {<<"av">>, <<"reg", "av">>}} \cup
    {<<k1, k2>> : k1 \in {<<"median">>, <<"reg", "median">>},
                  k2 \in {<<"av">>, <<"reg", "av">>}}

\* The keys of the reductions table of Calc._time_reduce.
reductions == {"None", "ts", "av", "std"}

\* The attributes of a Region that are methods taking the data.
RegionMethods == {"ts", "av", "std", "mask_var", "make_mask"}

\* specs[-1]
TerminalToken(specs) == specs[Len(specs)]

\* Calc._time_reduce: [exc, val]; val names the reduction applied to the
\* series.
_time_reduce(arr, reduction) ==
    IF reduction \in reductions
    THEN [exc |-> "none",
          val |-> [series |-> arr, reduction |-> reduction, region |-> {}]]
    ELSE [exc |-> "ValueError",
          val |-> [series |-> arr, reduction |-> reduction, region |-> {}]]

\* Calc.region_calcs: data already averaged goes through Region.ts; in any
\* other case the method named func is looked up on each region, and a name
\* the Region does not have raises AttributeError.
region_calcs(self, arr, func) ==
    IF self.region = {}
    THEN [exc |-> "none",
          val |-> [series |-> arr, reduction |-> func, region |-> {}]]
    ELSE IF self.dtype_in_time = "av"
    THEN [exc |-> "none",
          val |-> [series |-> arr, reduction |-> "ts",
                   region |-> self.region]]
    ELSE IF func \in RegionMethods
    THEN [exc |-> "none",
          val |-> [series |-> arr, reduction |-> func,
                   region |-> self.region]]
    ELSE [exc |-> "AttributeError",
          val |-> [series |-> arr, reduction |-> func, region |-> {}]]

\* Calc.compute, the flags of lines 666-668.
bool_monthly(self) ==
    <<self.dtype_in_time = "monthly_from_daily">> \o
    [i \in DOMAIN self.dtype_out_time |->
        "time-mean" \in Range(self.dtype_out_time[i])]

bool_eddy(self) ==
    [i \in DOMAIN self.dtype_out_time |->
        "eddy" \in Range(self.dtype_out_time[i])]

all(flags) == \A i \in DOMAIN flags : flags[i]

any(flags) == \E i \in DOMAIN flags : flags[i]

\* The number of calls of the transform function: one for the full series
\* and one for the monthly series.
FunctionCalls(self) ==
    (IF ~all(bool_monthly(self)) THEN <<"function">> ELSE <<>>) \o
    (IF any(bool_eddy(self)) \/ any(bool_monthly(self))
     THEN <<"function">> ELSE <<>>)

\* Calc.compute, lines 669-682: the series that are computed in the call;
\* each of the others is set to the placeholder False.
ComputedSeries(self) ==
    (IF ~all(bool_monthly(self)) THEN {"full_ts"} ELSE {}) \cup
    (IF any(bool_eddy(self)) \/ any(bool_monthly(self))
     THEN {"monthly_ts"} ELSE {}) \cup
    (IF any(bool_eddy(self)) /\ ~all(bool_monthly(self))
     THEN {"eddy_ts"} ELSE {})

\* The series an output kind is reduced from.
SeriesOf(specs) ==
    IF "eddy" \in Range(specs) THEN "eddy_ts"
    ELSE IF "time-mean" \in Range(specs) THEN "monthly_ts"
    ELSE "full_ts"

RECURSIVE ReduceFrom(_, _, _)
\* Calc.compute, the loop over the output kinds from the i-th on: the
\* first reduction that raises ends the loop.
ReduceFrom(self, i, reduced) ==
    IF i > Len(self.dtype_out_time)
    THEN [exc |-> "none", reduced |-> reduced]
    ELSE LET reduc == self.dtype_out_time[i]
             func == TerminalToken(reduc)
             data == SeriesOf(reduc)
             r == IF "reg" \in Range(reduc) THEN region_calcs(self, data, func)
                  ELSE _time_reduce(data, func)
         IN  IF r.exc # "none"
             THEN [exc |-> r.exc, reduced |-> reduced]
             ELSE ReduceFrom(self, i + 1, (reduc :> r.val) @@ reduced)

\* The reductions of compute: none for a variable that is not defined in
\* time.
Reduced(self) ==
    IF self.def_time
    THEN ReduceFrom(self, 1, EmptyDict)
    ELSE [exc |-> "none",
          reduced |-> (KindEmpty :> [series |-> "full_ts", reduction |-> "None",
                                   region |-> {}])]

ComputeConfigs ==
    {[pc |-> "idle", dtype_out_time |-> k, def_time |-> dt,
      dtype_in_time |-> d, region |-> r, found |-> f, events |-> <<>>,
      series |-> {}, reduced |-> EmptyDict, saved |-> {}, exc |-> "none"] :
        k \in KindTuples, dt \in BOOLEAN,
        d \in {"ts", "av", "monthly_from_daily"},
        r \in {{}, {"globe"}, {"globe", "land"}}, f \in BOOLEAN}

InitCompute ==
    /\ loc \in ComputeConfigs
    /\ RestInit

ComputeStep(new) ==
    /\ loc' = new
    /\ UNCHANGED <<calc, args, data_out, scratch, archive, dirs, stores0, pc,
                   local, hist>>

\* Calc.compute, _get_all_data: the input files are located and read; a
\* variable whose files are not found raises.
GetAllData ==
    /\ loc.pc = "idle"
    /\ ComputeStep(
         IF loc.found
         THEN [loc EXCEPT !.pc = "loaded", !.events = @ \o <<"locate", "read">>]
         ELSE [loc EXCEPT !.pc = "raised", !.events = @ \o <<"locate">>,
                          !.exc = "IOError"])

\* Calc.compute, the time series and their yearly averages.  An eddy
\* series asked for when the full series is the placeholder False is the
\* difference False - monthly_mean_at_each_ind(monthly_ts, False): the call
\* raises, or line 690 raises UnboundLocalError on full_dt, which was never
\* assigned.
ComputeFullTs ==
    /\ loc.pc = "loaded"
    /\ IF any(bool_eddy(loc)) /\ all(bool_monthly(loc))
       THEN \E e \in {"Exception", "UnboundLocalError"} :
                ComputeStep([loc EXCEPT !.pc = "raised", !.exc = e,
                                        !.events = @ \o FunctionCalls(loc),
                                        !.series = ComputedSeries(loc)])
       ELSE ComputeStep([loc EXCEPT !.pc = "computed",
                                    !.events = @ \o FunctionCalls(loc),
                                    !.series = ComputedSeries(loc)])

\* Calc.compute, the time reductions.
ApplyReductions ==
    /\ loc.pc = "computed"
    /\ LET r == Reduced(loc)
       IN  ComputeStep([loc EXCEPT !.pc = IF r.exc = "none" THEN "reduced"
                                          ELSE "raised",
                                   !.exc = r.exc,
                                   !.reduced = r.reduced])

\* Calc.compute, the saves of the reduced outputs.
SaveReduced ==
    /\ loc.pc = "reduced"
    /\ ComputeStep([loc EXCEPT !.pc = "done", !.saved = DOMAIN loc.reduced])

NextCompute == GetAllData \/ ComputeFullTs \/ ApplyReductions \/ SaveReduced

SpecCompute == InitCompute /\ [][NextCompute]_vars

\* An output kind of the Calc ends in a token that names no reduction.
HasUnsupported ==
    \E i \in DOMAIN loc.dtype_out_time :
        TerminalToken(loc.dtype_out_time[i]) \notin reductions

\* C16: a compute() asked for an output kind with an unsupported reduction
\* ends with the unsupported-reduction error, and up to the error no input
\* file is located or read and the transform function is not called.
C16_FailsBeforeComputation ==
    (loc.def_time /\ HasUnsupported) =>
        /\ loc.events = <<>>
        /\ loc.pc \in {"idle", "raised"}
        /\ loc.pc = "raised" => loc.exc = "ValueError"

\* The reductions of the compute have been gone through.
ReductionsApplied ==
    \/ loc.pc \in {"reduced", "done"}
    \/ loc.pc = "raised" /\ "function" \in Range(loc.events)

\* C17: once the reductions of a time-defined variable have been gone
\* through, an output kind whose terminal token names no supported
\* reduction has made the compute fail with ValueError, on the route
\* through _time_reduce and, with the regional flag, through region_calcs.
C17_UnsupportedIsValueError ==
    (loc.def_time /\ HasUnsupported /\ ReductionsApplied) =>
        /\ loc.pc = "raised"
        /\ loc.exc = "ValueError"

\* ---------------------------------------------------------------------
\* Calc.load with its subsetting and conversion options, and two Calc
\* objects built from the same parameters, which share every artifact.
\* A DataArray is held as the sequence of its values along its leading
\* axis.

\* The options of load: region is a region name ("" for False), time and
\* vert are index lists (<< >> for False; vert stands for the level_index
\* found for self.level), the others are flags.
NoOptions ==
    [region |-> "", time |-> << >>, vert |-> << >>, lat |-> FALSE,
     plot_units |-> FALSE, mask_unphysical |-> FALSE]

LoadOptions ==
    {NoOptions,
     [NoOptions EXCEPT !.region = "globe"],
     [NoOptions EXCEPT !.time = <<1>>],
     [NoOptions EXCEPT !.time = <<2>>],
     [NoOptions EXCEPT !.vert = <<1>>],
     [NoOptions EXCEPT !.lat = TRUE],
     [NoOptions EXCEPT !.plot_units = TRUE],
     [NoOptions EXCEPT !.mask_unphysical = TRUE]}

\* data[index] of a DataArray: the values at the given places.
Take(val, index) ==
    IF \A i \in DOMAIN index : index[i] \in DOMAIN val
    THEN [exc |-> "none",
          data |-> DataArray([i \in DOMAIN index |-> val[index[i]]])]
    ELSE [exc |-> "IndexError", data |-> DataArray(<< >>)]

\* np.mean(data, axis=0)[np.newaxis, :]: one entry, the mean of the values.
MeanOf(val) == DataArray(<<[mean_of |-> val]>>)

\* Calc._get_data_subset, the region step.
SubsetRegion(data, region) ==
    IF region = "" THEN [exc |-> "none", data |-> data]
    ELSE IF data.type = "dict" /\ region \in DOMAIN data.val
    THEN [exc |-> "none", data |-> DataArray(data.val[region])]
    ELSE [exc |-> "KeyError", data |-> DataArray(<< >>)]

\* Calc._get_data_subset, the time step.
SubsetTime(self, data, time) ==
    IF time = << >> THEN [exc |-> "none", data |-> data]
    ELSE IF data.type = "dict"
    THEN [exc |-> "TypeError", data |-> DataArray(<< >>)]
    ELSE LET t == Take(data.val, time)
         IN  IF t.exc # "none" THEN t
             ELSE IF self.dtype_in_time = "monthly_from_daily"
             THEN [exc |-> "none", data |-> MeanOf(t.data.val)]
             ELSE t

\* Calc._get_data_subset, the vertical step: no subsetting on sigma
\* levels; with 'ts' among the output kinds the second axis is indexed,
\* which the one-axis array here does not have.
SubsetVert(self, data, vert) ==
    IF vert = << >> \/ self.dtype_in_vert = "sigma"
    THEN [exc |-> "none", data |-> data]
    ELSE IF data.type = "dict"
    THEN [exc |-> "TypeError", data |-> DataArray(<< >>)]
    ELSE IF <<"ts">> \in Range(self.dtype_out_time)
    THEN [exc |-> "IndexError", data |-> DataArray(<< >>)]
    ELSE Take(data.val, vert)

\* Calc._get_data_subset
_get_data_subset(self, data, opts) ==
    LET r == SubsetRegion(data, opts.region)
        t == IF r.exc # "none" THEN r ELSE SubsetTime(self, r.data, opts.time)
        v == IF t.exc # "none" THEN t ELSE SubsetVert(self, t.data, opts.vert)
    IN  IF v.exc # "none" THEN v
        ELSE IF opts.lat
        THEN [exc |-> "NotImplementedError", data |-> DataArray(<< >>)]
        ELSE v

\* Var.mask_unphysical: a new masked array over the same values.
mask_unphysical(data) == [type |-> "MaskedArray", val |-> data.val]

\* Var.to_plot_units: a new array, the values in plotting units.
to_plot_units(data) == [type |-> "PlotUnits", val |-> data.val]

\* Calc.load, lines 847-856: the value returned for the data held.
Returned(self, data, opts) ==
    LET s == IF opts.region # "" \/ opts.time # << >> \/ opts.vert # << >>
                  \/ opts.lat
             THEN _get_data_subset(self, data, opts)
             ELSE [exc |-> "none", data |-> data]
        m == IF opts.mask_unphysical THEN mask_unphysical(s.data) ELSE s.data
    IN  IF s.exc # "none" THEN s
        ELSE [exc |-> "none",
              data |-> IF opts.plot_units THEN to_plot_units(m) ELSE m]

\* load_with that copies the value it returns into data_out.
load_with_CacheReturned(self, dout, fs, ar, dtype_out_time, opts) ==
    LET r == load(self, dout, fs, ar, dtype_out_time)
    IN  IF r.exc # "none" THEN r
        ELSE LET s == Returned(self, r.data, opts)
             IN  [r EXCEPT !.exc = s.exc, !.data = s.data,
                           !.data_out = _update_data_out(dout, s.data,
                                                         dtype_out_time)]

\* Calc.load: the data is found, copied into data_out, and only then
\* subsetted and converted.
load_with(self, dout, fs, ar, dtype_out_time, opts) ==
    LET r == load(self, dout, fs, ar, dtype_out_time)
    IN  IF r.exc # "none" THEN r
        ELSE LET s == Returned(self, r.data, opts)
             IN  [r EXCEPT !.exc = s.exc, !.data = s.data]

\* The time series saved in the scenario.
Series == {<<1, 2>>, <<2, 1>>}

RegSeries == Dict(("globe" :> <<1, 2>>) @@ ("land" :> <<2, 1>>))

\* The stores as an earlier session leaves them: the 'av' series saved to
\* scratch and archive.
SeriesStores ==
    LET st == save(NewUnit(ArgsOf("u1")), EmptyDict, NoStores,
                   DataArray(<<1, 2>>), KindAv, TRUE, TRUE)
    IN  [fs |-> st.fs, ar |-> st.ar, dirs |-> st.dirs]

\* Both Calc objects are built from the parameters of u1.
InitView ==
    \E stores \in {NoStores, SeriesStores} :
        /\ args = [u \in Units |-> ArgsOf("u1")]
        /\ calc = [u \in Units |-> NewUnit(ArgsOf("u1"))]
        /\ data_out = [u \in Units |-> EmptyDict]
        /\ scratch = stores.fs
        /\ archive = stores.ar
        /\ dirs = stores.dirs
        /\ stores0 = stores
        /\ pc = [u \in Units |-> "idle"]
        /\ local = [u \in Units |-> Idle]
        /\ hist = << >>
        /\ loc = Idle

\* One call of Calc.load with options.
LoadWith(u, dtype_out_time, opts) ==
    /\ AllIdle
    /\ Len(hist) < MaxOps
    /\ LET r == load_with(calc[u], data_out[u], scratch, archive,
                          dtype_out_time, opts)
       IN  /\ data_out' = [data_out EXCEPT ![u] = r.data_out]
           /\ hist' = Append(hist,
                             Call("load", u, dtype_out_time, r.data, FALSE,
                                  r.exc, r.reads) @@ [opts |-> opts])
    /\ UNCHANGED <<calc, args, scratch, archive, dirs, stores0, pc, local, loc>>

NextView ==
    \/ \E v \in Series : Save("u1", KindAv, DataArray(v), TRUE, TRUE)
    \/ Save("u1", KindRegAv, RegSeries, TRUE, TRUE)
    \/ \E v \in Series : Save("u2", KindAv, DataArray(v), TRUE, TRUE)
    \/ \E k \in {KindAv, KindRegAv}, opts \in LoadOptions :
          LoadWith("u1", k, opts)

SpecView == InitView /\ [][NextView]_vars

\* The value a load of the kind finds for the unit: the one held in
\* data_out, or else the one on disk.
Found(u, k) ==
    IF k \in DOMAIN data_out[u]
    THEN [exc |-> "none", data |-> data_out[u][k]]
    ELSE LoadFromDisk(calc[u], scratch, archive, k)

\* The call the step appends to hist.
NewCall == hist'[Len(hist')]

\* C18: a load with any options leaves the scratch artifact and the
\* archive as they are; when it finds the data, data_out holds for the kind
\* the full value found, and what is returned is the subset and conversion
\* of that full value, so that the options of one load never narrow what a
\* later load starts from.
C18_LoadLeavesStored ==
    [][Called("load") =>
          /\ scratch' = scratch
          /\ archive' = archive
          /\ dirs' = dirs
          /\ LET u == NewCall.unit
                 k == NewCall.kind
                 f == Found(u, k)
             IN  IF f.exc # "none"
                 THEN NewCall.exc = f.exc /\ data_out' = data_out
                 ELSE /\ data_out'[u] = _update_data_out(data_out[u], f.data, k)
                      /\ k \in DOMAIN data_out[u] =>
                            data_out'[u][k] = data_out[u][k]
                      /\ NewCall.exc = Returned(calc[u], f.data,
                                                NewCall.opts).exc
                      /\ NewCall.exc = "none" =>
                            NewCall.data = Returned(calc[u], f.data,
                                                    NewCall.opts).data
    ]_vars

\* A load of the first time step from disk, then a load of the second time
\* step: the second returns the second value of the full series.
C18_Witness ==
    /\ Len(hist) >= 2
    /\ hist[1].op = "load" /\ hist[1].exc = "none"
    /\ hist[1].kind = KindAv /\ hist[1].opts.time = <<1>>
    /\ hist[1].data = DataArray(<<1>>)
    /\ hist[2].op = "load" /\ hist[2].exc = "none"
    /\ hist[2].kind = KindAv /\ hist[2].opts.time = <<2>>
    /\ hist[2].data = DataArray(<<2>>)
    /\ data_out["u1"][KindAv] = DataArray(<<1, 2>>)
    /\ scratch = stores0.fs /\ archive = stores0.ar

\* C19: a load that finds its data leaves the kind in data_out; a load of a
\* kind held in data_out reads neither store, returns the value held and
\* leaves data_out as it is; and the value held for a kind changes only by
\* a save of the same Calc, whatever the other Calc writes to the shared
\* artifact.
C19_CachedAfterLoad ==
    [][/\ Called("load") =>
            LET u == NewCall.unit
                k == NewCall.kind
            IN  /\ Found(u, k).exc = "none" => k \in DOMAIN data_out'[u]
                /\ k \in DOMAIN data_out[u] =>
                      /\ NewCall.reads = << >>
                      /\ data_out' = data_out
                      /\ NewCall.exc = "none" =>
                            NewCall.data = Returned(calc[u], data_out[u][k],
                                                    NewCall.opts).data
       /\ \A u \in Units : \A k \in DOMAIN data_out[u] :
             /\ k \in DOMAIN data_out'[u]
             /\ data_out'[u][k] # data_out[u][k] =>
                   Called("save") /\ NewCall.unit = u /\ NewCall.kind = k
    ]_vars

\* The first Calc loads the series from disk, the second Calc saves another
\* series to the same artifact, and the first Calc loads again: it gets the
\* series it holds, with no read.
C19_Witness ==
    /\ Len(hist) = 3
    /\ hist[1].op = "load" /\ hist[1].unit = "u1" /\ hist[1].exc = "none"
    /\ hist[1].kind = KindAv /\ hist[1].reads = <<"scratch">>
    /\ hist[2].op = "save" /\ hist[2].unit = "u2" /\ hist[2].exc = "none"
    /\ hist[2].kind = KindAv /\ hist[2].data = DataArray(<<2, 1>>)
    /\ hist[3].op = "load" /\ hist[3].unit = "u1" /\ hist[3].exc = "none"
    /\ hist[3].kind = KindAv /\ hist[3].opts = NoOptions
    /\ hist[3].reads = << >>
    /\ hist[3].data = DataArray(<<1, 2>>)
    /\ scratch # stores0.fs

\* ---------------------------------------------------------------------
\* GFDLDataLoader.__init__, with and without a template.
\* A value is held with a tag: None, or the value itself.

None(v) == [tag |-> "None", v |-> v]

Some(v) == [tag |-> "val", v |-> v]

attrs == {"data_direc", "data_dur", "data_start_date", "data_end_date"}

\* The values an attribute is given as keyword argument; a date is the
\* number of its year.
AttrValues ==
    [data_direc |-> {None(""), Some(""), Some("/a/")},
     data_dur |-> {None(0), Some(0), Some(6)},
     data_start_date |-> {None(0), Some(2001)},
     data_end_date |-> {None(0), Some(2003)}]

\* The keyword arguments of a construction.
Keywords ==
    {[data_direc |-> d, data_dur |-> u, data_start_date |-> s,
      data_end_date |-> e] :
        d \in AttrValues.data_direc, u \in AttrValues.data_dur,
        s \in AttrValues.data_start_date, e \in AttrValues.data_end_date}

\* A loader with no attribute set.
NoLoader ==
    [data_direc |-> None(""), data_dur |-> None(0),
     data_start_date |-> None(0), data_end_date |-> None(0)]

\* The template argument: None, or a loader built without a template.
Templates ==
    {None(NoLoader)} \cup
    {Some([data_direc |-> d, data_dur |-> Some(5),
           data_start_date |-> Some(2000), data_end_date |-> e]) :
        d \in {Some(""), Some("/t/")}, e \in {None(0), Some(2002)}}

\* The values of each attribute that are false as a condition.
Falsy ==
    [data_direc |-> {None(""), Some("")},
     data_dur |-> {None(0), Some(0)},
     data_start_date |-> {None(0)},
     data_end_date |-> {None(0)}]

\* GFDLDataLoader_init that overrides the template only with an argument
\* that is true as a condition.
GFDLDataLoader_init_Truthy(template, kw) ==
    IF template.tag # "None"
    THEN [a \in attrs |-> IF kw[a] \notin Falsy[a] THEN kw[a]
                          ELSE template.v[a]]
    ELSE [a \in attrs |-> kw[a]]

\* GFDLDataLoader.__init__: the attributes of the new loader.  With a
\* template every attribute is first copied from it and then set again,
\* to the argument when that is not None and to the template's value
\* otherwise.
GFDLDataLoader_init(template, kw) ==
    IF template.tag # "None"
    THEN LET copied == [a \in attrs |-> template.v[a]]
         IN  [a \in attrs |-> IF kw[a].tag # "None" THEN kw[a]
                              ELSE template.v[a]]
    ELSE [a \in attrs |-> kw[a]]

InitTemplate ==
    /\ \E t \in Templates, kw \in Keywords :
          loc = [pc |-> "idle", template0 |-> t, template |-> t, kw |-> kw,
                 new |-> NoLoader]
    /\ RestInit

\* One construction of a GFDLDataLoader; the template is only read.
Construct ==
    /\ loc.pc = "idle"
    /\ loc' = [loc EXCEPT !.pc = "done",
                          !.new = GFDLDataLoader_init(loc.template, loc.kw)]
    /\ UNCHANGED <<calc, args, data_out, scratch, archive, dirs, stores0, pc,
                   local, hist>>

NextTemplate == Construct

SpecTemplate == InitTemplate /\ [][NextTemplate]_vars

\* C20: a loader built from a template holds, for each of the four
\* attributes, the keyword argument when that is not None and the
\* template's value otherwise, and the template holds what it held before.
C20_TemplateOverride ==
    (loc.pc = "done" /\ loc.template0.tag # "None") =>
        /\ \A a \in attrs :
              loc.new[a] = IF loc.kw[a].tag # "None" THEN loc.kw[a]
                           ELSE loc.template0.v[a]
        /\ loc.template = loc.template0

\* test_overriding_constructor with an empty directory name and a zero
\* duration: both are kept, the dates come from the template.
C20_Witness ==
    /\ loc.pc = "done"
    /\ loc.template0.tag # "None"
    /\ loc.template0.v.data_direc = Some("/t/")
    /\ loc.kw = [data_direc |-> Some(""), data_dur |-> Some(0),
                 data_start_date |-> None(0), data_end_date |-> None(0)]
    /\ loc.new.data_direc = Some("")
    /\ loc.new.data_dur = Some(0)
    /\ loc.new.data_start_date = Some(2000)
    /\ loc.new.data_end_date = loc.template0.v.data_end_date

\* C21: _maybe_apply_time_shift returns the input axis moved by one offset:
\* by the explicit time_offset when one is passed, whatever the data
\* attributes; by nothing when none is passed, for the base DataLoader and
\* for GFDLDataLoader with data that is not instantaneous.
C21_OneOffset ==
    (loc.pc = "shifted" /\ loc.path \in {"DataLoader", "GFDLDataLoader"}) =>
        /\ loc.time_offset.tag # "None" =>
              loc.result.time =
                  [i \in DOMAIN loc.time0 |->
                      loc.time0[i] + 24 * loc.time_offset.days
                                   + loc.time_offset.hours]
        /\ (loc.time_offset.tag = "None" /\ loc.path = "DataLoader") =>
              loc.result.time = loc.time0
        /\ (loc.time_offset.tag = "None" /\ loc.path = "GFDLDataLoader"
              /\ ~("dtype_in_time" \in loc.DataAttrs.keys
                      /\ loc.DataAttrs.dtype_in_time = "inst")) =>
              loc.result.time = loc.time0

\* An explicit offset of one day passed to the GFDL loader for 3-hourly
\* instantaneous data: the axis moves by 24 hours, not by 21.
C21_Witness ==
    /\ loc.pc = "shifted"
    /\ loc.path = "GFDLDataLoader"
    /\ loc.time_offset = [tag |-> "dict", days |-> 1, hours |-> 0]
    /\ loc.DataAttrs.keys = {"dtype_in_time", "intvl_in"}
    /\ loc.DataAttrs.dtype_in_time = "inst"
    /\ loc.DataAttrs.intvl_in = HourlyIntvl(3)
    /\ loc.time0 = <<3, 6, 9>>
    /\ loc.result.time = <<27, 30, 33>>

\* ---------------------------------------------------------------------
\* Year averaging: Calc._compute, Calc._avg_by_year and
\* Calc._full_to_yearly_ts.
\* A series is the sequence of its values, years names the calendar year
\* of each timestep, and a quotient is held exactly, as numerator and
\* denominator.

\* The timesteps of a series that fall in calendar year y.
StepsOf(years, y) == {i \in DOMAIN years : years[i] = y}

RECURSIVE SumOver(_, _)
\* The sum of arr over a set of timesteps.
SumOver(arr, steps) ==
    IF steps = {} THEN 0
    ELSE LET i == CHOOSE i \in steps : TRUE
         IN  arr[i] + SumOver(arr, steps \ {i})

\* arr * dt
Times(arr, dt) == [i \in DOMAIN arr |-> arr[i] * dt[i]]

\* Calc._avg_by_year with every timestep weighted alike.
_avg_by_year_Unweighted(arr, dt, years) ==
    [y \in Range(years) |->
        [num |-> SumOver(arr, StepsOf(years, y)),
         den |-> Cardinality(StepsOf(years, y))]]

\* Calc._avg_by_year: for each year, the sum of arr * dt over the sum of dt.
_avg_by_year(arr, dt, years) ==
    [y \in Range(years) |->
        [num |-> SumOver(Times(arr, dt), StepsOf(years, y)),
         den |-> SumOver(dt, StepsOf(years, y))]]

\* Calc._compute with monthly_mean=False, the weights: ones for
\* instantaneous data, self.dt otherwise, which is set only when the input
\* files hold average_DT.
_compute_dt(self) ==
    IF self.dtype_in_time = "inst"
    THEN [exc |-> "none", dt |-> [i \in DOMAIN self.local_ts |-> 1]]
    ELSE IF self.has_dt
    THEN [exc |-> "none", dt |-> self.average_DT]
    ELSE [exc |-> "AttributeError", dt |-> self.average_DT]

\* Calc._full_to_yearly_ts: the tag says whether the series was averaged.
_full_to_yearly_ts(self, arr, dt) ==
    LET time_defined == self.def_time
                          /\ ~(self.dtype_in_time = "av" \/ self.idealized)
    IN  IF time_defined
        THEN [averaged |-> TRUE, arr |-> arr,
              yearly |-> _avg_by_year(arr, dt, self.years)]
        ELSE [averaged |-> FALSE, arr |-> arr, yearly |-> << >>]

YearConfigs ==
    {[pc |-> "idle", local_ts |-> v, average_DT |-> d, years |-> y,
      dtype_in_time |-> t, def_time |-> dt, idealized |-> id, has_dt |-> h,
      dt |-> d, exc |-> "none",
      result |-> [averaged |-> FALSE, arr |-> v, yearly |-> << >>]] :
        v \in [1..3 -> {10, 40}], d \in [1..3 -> {1, 2}],
        y \in {<<1, 1, 1>>, <<1, 1, 2>>}, t \in {"ts", "inst", "av"},
        dt \in BOOLEAN, id \in BOOLEAN, h \in BOOLEAN}

InitYear ==
    /\ loc \in YearConfigs
    /\ RestInit

\* Calc._compute, the time series and its weights.
ComputeWeights ==
    /\ loc.pc = "idle"
    /\ LET r == _compute_dt(loc)
       IN  loc' = [loc EXCEPT !.pc = IF r.exc = "none" THEN "computed"
                                     ELSE "raised",
                              !.dt = r.dt, !.exc = r.exc]
    /\ UNCHANGED <<calc, args, data_out, scratch, archive, dirs, stores0, pc,
                   local, hist>>

\* Calc.compute, the average within each year.
FullToYearlyTs ==
    /\ loc.pc = "computed"
    /\ Returns(_full_to_yearly_ts(loc, loc.local_ts, loc.dt))

NextYear == ComputeWeights \/ FullToYearlyTs

SpecYear == InitYear /\ [][NextYear]_vars

\* The duration of timestep i that the claim names: the source averaging
\* duration, or 1 for instantaneous sampling.
Duration(i) == IF loc.dtype_in_time = "inst" THEN 1 ELSE loc.average_DT[i]

\* C22: for a series that is averaged by year, the value of each calendar
\* year equals sum(value_t * dt_t) / sum(dt_t) over the timesteps of the
\* year, with dt_t the source averaging duration, or 1 when the sampling is
\* instantaneous.
C22_DurationWeightedMean ==
    (loc.pc = "done" /\ loc.result.averaged) =>
        \A y \in Range(loc.years) :
            LET steps == StepsOf(loc.years, y)
                weighted == SumOver([i \in DOMAIN loc.local_ts |->
                                        loc.local_ts[i] * Duration(i)], steps)
                total == SumOver([i \in DOMAIN loc.local_ts |-> Duration(i)],
                                 steps)
            IN  /\ y \in DOMAIN loc.result.yearly
                /\ loc.result.yearly[y].den # 0
                /\ loc.result.yearly[y].num * total
                      = weighted * loc.result.yearly[y].den

\* Values [10, 10, 40] with durations [1, 2, 1] in one year: 70 / 4 = 17.5,
\* where the unweighted mean is 60 / 3 = 20.
C22_Witness ==
    /\ loc.pc = "done"
    /\ loc.result.averaged
    /\ loc.dtype_in_time = "ts"
    /\ loc.local_ts = <<10, 10, 40>>
    /\ loc.average_DT = <<1, 2, 1>>
    /\ loc.years = <<1, 1, 1>>
    /\ loc.result.yearly[1] = [num |-> 70, den |-> 4]
    /\ 2 * loc.result.yearly[1].num = 35 * loc.result.yearly[1].den
    /\ loc.result.yearly[1].num # 20 * loc.result.yearly[1].den

\* ---------------------------------------------------------------------
\* Region._get_land_mask, the land/ocean weight of Region.ts.
\* A weight is a fraction, held as numerator and denominator; a field is
\* the sequence of its cells.

Frac(n, d) == [num |-> n, den |-> d]

\* a == b for two fractions
SameFrac(a, b) == a.num * b.den = b.num * a.den

\* 1. - land_mask, cell by cell
OneMinus(field) ==
    [i \in DOMAIN field |-> Frac(field[i].den - field[i].num, field[i].den)]

\* The land fractions of the cells of the data: ocean, coast, land.
LandMasks == [1..2 -> {Frac(0, 1), Frac(1, 2), Frac(1, 1)}]

\* The do_land_mask settings of a Region.
LandMaskModes ==
    {"False", "True", "land", "ocean", "strict_land", "strict_ocean"}

\* Region._get_land_mask: [exc, warned, weight]; weight is a field, or
\* the scalar 1 spread over the cells.
_get_land_mask(data, do_land_mask) ==
    LET ones == [i \in DOMAIN data.land_mask |-> Frac(1, 1)]
    IN  IF ~data.has_land_mask
        THEN [exc |-> "none", warned |-> TRUE, weight |-> ones]
        ELSE IF do_land_mask \in {"True", "land"}
        THEN [exc |-> "none", warned |-> FALSE, weight |-> data.land_mask]
        ELSE IF do_land_mask = "ocean"
        THEN [exc |-> "none", warned |-> FALSE,
              weight |-> OneMinus(data.land_mask)]
        ELSE IF do_land_mask \in {"strict_land", "strict_ocean"}
        THEN [exc |-> "NotImplementedError", warned |-> FALSE,
              weight |-> ones]
        ELSE [exc |-> "none", warned |-> FALSE, weight |-> ones]

InitRegion ==
    /\ \E m \in LandMasks, h \in BOOLEAN, mode \in LandMaskModes :
          loc = [pc |-> "idle", do_land_mask |-> mode,
                 data |-> [has_land_mask |-> h, land_mask |-> m],
                 result |-> [exc |-> "none", warned |-> FALSE,
                             weight |-> m]]
    /\ RestInit

\* Region.ts, the call of _get_land_mask.
GetLandMask ==
    /\ loc.pc = "idle"
    /\ LET r == _get_land_mask(loc.data, loc.do_land_mask)
       IN  loc' = [loc EXCEPT !.pc = IF r.exc = "none" THEN "done"
                                     ELSE "raised",
                              !.result = r]
    /\ UNCHANGED <<calc, args, data_out, scratch, archive, dirs, stores0, pc,
                   local, hist>>

NextRegion == GetLandMask

SpecRegion == InitRegion /\ [][NextRegion]_vars

\* Every cell of the weight equals the cell of the given field.
WeightIs(field) ==
    \A i \in DOMAIN loc.result.weight :
        SameFrac(loc.result.weight[i], field[i])

AllOnes == [i \in DOMAIN loc.data.land_mask |-> Frac(1, 1)]

\* C23: the weight of a cell is 1 for a land-only region, 1 minus the land
\* fraction for an ocean-only region and 1 with no masking; with no
\* land-mask field in the data it is 1 for every mode, with a warning and
\* no error.
C23_LandOceanWeight ==
    loc.pc # "idle" =>
        /\ (loc.data.has_land_mask /\ loc.do_land_mask \in {"True", "land"}) =>
              loc.pc = "done" /\ WeightIs(AllOnes)
        /\ (loc.data.has_land_mask /\ loc.do_land_mask = "ocean") =>
              loc.pc = "done" /\ WeightIs(OneMinus(loc.data.land_mask))
        /\ (loc.data.has_land_mask /\ loc.do_land_mask = "False") =>
              loc.pc = "done" /\ WeightIs(AllOnes)
        /\ ~loc.data.has_land_mask =>
              loc.pc = "done" /\ loc.result.warned /\ WeightIs(AllOnes)

\* ---------------------------------------------------------------------
\* Calc.compute with its saves: the reductions of one call followed by the
\* save of every reduced output to the stores.

\* The value compute hands to save for one reduced output: region_calcs
\* gives a dict keyed by region name, _time_reduce a DataArray.
ReducedValue(reduc, r) ==
    IF "reg" \in Range(reduc) THEN Dict([n \in r.region |-> r])
    ELSE DataArray(r)

\* The parameters of the Calc that a configuration of compute stands for.
RunArgs(l) ==
    [ArgsOf("u1") EXCEPT !.dtype_out_time = l.dtype_out_time,
                         !.dtype_in_time = l.dtype_in_time,
                         !.region = l.region]

\* Mutant of AfterReductions: every output is saved as soon as it is
\* reduced, before the reductions that follow it.
AfterReductions_SavingEach(c, self, dout, stores) ==
    LET r == Reduced(self)
        Step(st, reduc) ==
            IF reduc \in DOMAIN r.reduced /\ st.exc = "none"
            THEN save(c, st.data_out, [fs |-> st.fs, ar |-> st.ar,
                                        dirs |-> st.dirs],
                      ReducedValue(reduc, r.reduced[reduc]), reduc,
                      TRUE, FALSE)
            ELSE st
        st0 == [data_out |-> dout, fs |-> stores.fs, ar |-> stores.ar,
                dirs |-> stores.dirs, exc |-> "none"]
        st1 == IF self.def_time THEN Step(st0, self.dtype_out_time[1])
               ELSE st0
    IN  [exc |-> r.exc, reduced |-> r.reduced, data_out |-> st1.data_out,
         fs |-> st1.fs, ar |-> st1.ar, dirs |-> st1.dirs]

\* Calc.compute, lines 692-710: the reductions fill the local dict
\* reduced; data_out and the stores are not touched.
AfterReductions(c, self, dout, stores) ==
    LET r == Reduced(self)
    IN  [exc |-> r.exc, reduced |-> r.reduced, data_out |-> dout,
         fs |-> stores.fs, ar |-> stores.ar, dirs |-> stores.dirs]

RECURSIVE SaveAll(_, _, _, _, _)
\* Calc.compute, lines 714-715: the loop over reduced.items() from the i-th
\* item of the iteration order on; a save that raises ends the loop.
SaveAll(c, reduced, order, i, st) ==
    IF i > Len(order) \/ st.exc # "none" THEN st
    ELSE SaveAll(c, reduced, order, i + 1,
                 save(c, st.data_out, [fs |-> st.fs, ar |-> st.ar,
                                       dirs |-> st.dirs],
                      ReducedValue(order[i], reduced[order[i]]), order[i],
                      TRUE, FALSE))

\* The orders in which a dict with the given keys can be iterated.
ItemOrders(keys) ==
    {o \in UNION {[1..n -> keys] : n \in 0..2} :
        /\ Len(o) = Cardinality(keys)
        /\ Range(o) = keys}

InitRun ==
    /\ loc \in ComputeConfigs
    /\ stores0 \in {NoStores, SavedStores}
    /\ args = [u \in Units |-> IF u = "u1" THEN RunArgs(loc) ELSE ArgsOf(u)]
    /\ calc = [u \in Units |-> NewUnit(args[u])]
    /\ data_out = [u \in Units |-> EmptyDict]
    /\ scratch = stores0.fs
    /\ archive = stores0.ar
    /\ dirs = stores0.dirs
    /\ pc = [u \in Units |-> "idle"]
    /\ local = [u \in Units |-> Idle]
    /\ hist = << >>

\* Calc.compute, the time reductions.
ReduceAll ==
    /\ loc.pc = "computed"
    /\ LET r == AfterReductions(calc["u1"], loc, data_out["u1"], Stores)
       IN  /\ loc' = [loc EXCEPT !.pc = IF r.exc = "none" THEN "reduced"
                                        ELSE "raised",
                                 !.exc = r.exc,
                                 !.reduced = r.reduced]
           /\ data_out' = [data_out EXCEPT !["u1"] = r.data_out]
           /\ scratch' = r.fs
           /\ archive' = r.ar
           /\ dirs' = r.dirs
    /\ UNCHANGED <<calc, args, stores0, pc, local, hist>>

\* Calc.compute, the saves of the reduced outputs.
SaveOutputs ==
    /\ loc.pc = "reduced"
    /\ \E order \in ItemOrders(DOMAIN loc.reduced) :
         LET st == SaveAll(calc["u1"], loc.reduced, order, 1,
                           [data_out |-> data_out["u1"], fs |-> scratch,
                            ar |-> archive, dirs |-> dirs, exc |-> "none"])
         IN  /\ loc' = [loc EXCEPT !.pc = IF st.exc = "none" THEN "done"
                                          ELSE "save_raised",
                                   !.exc = st.exc,
                                   !.saved = DOMAIN st.data_out]
             /\ data_out' = [data_out EXCEPT !["u1"] = st.data_out]
             /\ scratch' = st.fs
             /\ archive' = st.ar
             /\ dirs' = st.dirs
    /\ UNCHANGED <<calc, args, stores0, pc, local, hist>>

NextRun == GetAllData \/ ComputeFullTs \/ ReduceAll \/ SaveOutputs

SpecRun == InitRun /\ [][NextRun]_vars

\* C24: within one compute() data_out, the scratch tier and the archive
\* change only in the step that follows the reduction of every requested
\* output kind, so a compute() that raises while gathering, transforming
\* or reducing leaves them exactly as they were.
C24_PhasesDoNotOverlap ==
    (loc.pc \in {"idle", "loaded", "computed", "reduced", "raised"}) =>
        /\ data_out["u1"] = EmptyDict
        /\ scratch = stores0.fs
        /\ archive = stores0.ar
        /\ dirs = stores0.dirs

\* A compute() that reduced its first output kind raised on its second.
C24_Witness ==
    /\ loc.pc = "raised"
    /\ loc.reduced # EmptyDict
    /\ stores0 = SavedStores

\* The compute is over: it returned, or one of its saves raised.
RunOver == loc.pc \in {"done", "save_raised"}

TransformCalled == "function" \in Range(loc.events)

\* C26: in compute() every series handed to the reducer of an output kind
\* was computed in that call, and whenever an output kind contains 'eddy'
\* both the full-resolution and the monthly series are computed, whatever
\* dtype_in_time and the other output kinds are.
C26_NoPlaceholder ==
    /\ (TransformCalled /\ any(bool_eddy(loc))) =>
           {"full_ts", "monthly_ts"} \subseteq loc.series
    /\ loc.def_time =>
           \A kind \in DOMAIN loc.reduced :
               loc.reduced[kind].series \in loc.series

\* C27: two Calc units that are equal in every parameter but the date
\* range, and differ in start or end date, have different scratch file
\* paths for each output kind.
C27_PathInjectiveInDates ==
    (/\ \A u \in Units : pc[u] = "built"
     /\ args["u1"].date_range # args["u2"].date_range
     /\ [args["u1"] EXCEPT !.date_range = args["u2"].date_range]
            = args["u2"])
    => \A kind \in DOMAIN calc["u1"].path_scratch :
           calc["u1"].path_scratch[kind] # calc["u2"].path_scratch[kind]

\* Each run given to the unit is, by itself, a value of model.runs.
EachRunRegistered(u) ==
    \A r \in Range(args[u].run.runs) : OneRun(r) \in args[u].model.runs

\* C30: the construction of a CalcInterface succeeds with one registered
\* run and with a list or tuple of registered runs, then giving proj,
\* model and run tuples of equal length, and raises AttributeError only
\* when a given run is not registered in the model.
C30_OneRunOrSeveral ==
    \A u \in Units :
        /\ (pc[u] = "raised" /\ calc[u].exc = "AttributeError")
               => ~EachRunRegistered(u)
        /\ (pc[u] # "idle" /\ EachRunRegistered(u)) =>
               /\ pc[u] = "built"
               /\ Len(calc[u].proj) = Len(calc[u].run)
               /\ Len(calc[u].model) = Len(calc[u].run)

\* A tier holds an artifact of the kind for the unit.
OnScratch(u, kind) == calc[u].path_scratch[kind] \in DOMAIN scratch

InArchive(u, kind) ==
    /\ calc[u].path_archive \in DOMAIN archive
    /\ Members(archive[calc[u].path_archive], calc[u].file_name[kind]) # << >>

\* C28: for a regional output kind the value a Calc holds in memory after
\* its save is the value that a load from the scratch artifact returns and
\* the value that a load from the archive entry returns.
C28_SameValueFromEveryTier ==
    \A u \in Units :
        KindRegAv \in DOMAIN data_out[u] =>
            /\ OnScratch(u, KindRegAv) =>
                   _load_from_scratch(calc[u], scratch, KindRegAv) =
                       [exc |-> "none", data |-> data_out[u][KindRegAv]]
            /\ InArchive(u, KindRegAv) =>
                   _load_from_archive(calc[u], archive, KindRegAv) =
                       [exc |-> "none", data |-> data_out[u][KindRegAv]]

\* C29: a save that raises leaves data_out as it was before the call.
C29_FailedSaveKeepsMemory ==
    [][(Called("save") /\ NewCall.exc # "none") => data_out' = data_out]_vars

====
